---- MODULE Spec2Model ----
(***************************************************************************)
(* Content scraper: the pipeline orchestrator (scraper/main.py), the       *)
(* content models' validation (scraper/models/content.py, output.py) and   *)
(* the scraper adapters' fetch layer (scraper/modules/base.py,             *)
(* rss_scraper.py).                                                        *)
(*                                                                         *)
(* Eleven specifications share the module.  Spec is one process run of     *)
(* main(): run_pipeline from SCRAPE to DONE, its statistics, the output    *)
(* file and the exit code.  SpecScraper is scrape_all_feeds of one adapter *)
(* object: the per-URL conditional-request cache and the per-feed          *)
(* isolation.  In Spec the value returned by scrape_all_feeds is drawn     *)
(* from the lists SpecScraper can return.  SpecExtract is the entry loop   *)
(* of one scrape_feed: what each adapter variant makes of an entry.        *)
(* SpecDocument is the same loop over whole documents, some longer than    *)
(* the 50 items a scrape reads.  SpecValidator is validate_content and     *)
(* batch_validate of the quality validator, SpecEnhance one call of        *)
(* enhance_content, SpecProject is convert_to_deal_output called twice     *)
(* with a clock between the calls, SpecField is _extract_field_value over  *)
(* small nested documents.  SpecMain is main() from the loading of the     *)
(* configuration file to the start of the run, SpecDeal the construction   *)
(* of a DealOutput from prices, SpecRetry one _make_request under the      *)
(* session's retry policy.                                                 *)
(*                                                                         *)
(* Text is modelled by what the code reads of it: lengths for excerpts,    *)
(* a class for titles, presence for optional fields.  Quality scores are   *)
(* tenths (8 stands for 0.8).                                              *)
(***************************************************************************)
EXTENDS Integers, Sequences, FiniteSets, TLC

\* ------------------------------------------------------------------ bounds
MaxItems == 2
MaxFeeds == 2
MaxEntries == 2
MaxDays == 2
MaxPath == 3
MaxPrice == 50

\* --------------------------------------------------------- program constants
ExcerptMin == 10
ExcerptMax == 500
TitleMax == 500
LearnMoreLen == 17
DegradedScore == 6
PassThroughScore == 7
EnhancedScore == 8
FeaturedAbove == 8
ConservativeScore == 5
QualityThreshold == 6
ValidatedFrom == 8
ContentDay == 0
FirstDay == 1
TitleImproveBelow == 30
IntervalMin == 300
IntervalMax == 86400
IntervalDefault == 3600
FeedsLimit == 20
ItemCap == 50
RetryAttempts == 3
HiBits == 17
LimbBits == 18

\* ------------------------------------------------------------------- state
VARIABLES
    pc,                 \* position of run_pipeline / main
    ai_agents_enabled,  \* ContentPipeline.ai_agents_enabled
    raw_content,        \* run_pipeline: raw_content
    enhanced_content,   \* _enhance_content: enhanced_content (the list being built)
    idx,                \* _enhance_content: position of the item loop
    validated_content,  \* run_pipeline: validated_content
    output_data,        \* run_pipeline: output_data
    stats,              \* ContentPipeline.stats
    file,               \* what the output path holds
    summary,            \* the OutputSummary returned by run_pipeline
    exit_code,          \* what main returns
    phases,             \* history: the phases entered, in order
    llm_used,           \* history: an LLM capability call was made
    failed_src,         \* history: raw items whose enhance_content raised
    quality,            \* history: the Quality Results batch_validate returned
    write_failed,       \* history: the write phase met an I/O error
    enh_log,            \* history: one record per enhance_content call
    batch_raised        \* history: the agent run inside batch_validate raised

pipeVars == <<pc, ai_agents_enabled, raw_content, enhanced_content, idx,
              validated_content, output_data, stats, file, summary,
              exit_code, phases, llm_used, failed_src, quality, write_failed,
              enh_log, batch_raised>>

VARIABLES
    adapter_type,       \* config.scraper_type of the adapter object
    feeds,              \* config.feeds
    cache,              \* BaseScraperModule._cache
    feed_pos,           \* scrape_all_feeds: position of the feed loop
    all_content,        \* scrape_all_feeds: all_content
    spc,                \* position of scrape_all_feeds
    feed_log            \* history: one record per feed scraped

scrVars == <<adapter_type, feeds, cache, feed_pos, all_content, spc, feed_log>>

VARIABLES
    adapter,            \* the adapter variant whose scrape_feed runs
    entry_pos,          \* scrape_feed: position of the entry loop
    content_items,      \* scrape_feed: content_items
    epc,                \* position of scrape_feed's extraction loop
    entry_log           \* history: one record per entry of the document

extVars == <<adapter, entry_pos, content_items, epc, entry_log>>

VARIABLES
    val_mode,           \* validate_content ("single") or batch_validate ("batch")
    batch_size,         \* len(content_list)
    val_pos,            \* batch_validate_content: position of the item loop
    batch_results,      \* batch_validate_content: results, then what is returned
    vpc,                \* position of the validator call
    val_log,            \* history: the LLM's answer for each item
    run_failed          \* history: the agent run itself raised

valVars == <<val_mode, batch_size, val_pos, batch_results, vpc, val_log,
             run_failed>>

VARIABLES
    prj_content,        \* the Enhanced Content given to convert_to_deal_output
    affiliate_tag,      \* config.affiliate_tag ("none": not set)
    today,              \* the day datetime.now() falls on
    projected           \* history: what each projection of content returned

prjVars == <<prj_content, affiliate_tag, today, projected>>

VARIABLES
    data,               \* _extract_field_value: data
    field_path,         \* _extract_field_value: field_path, as its parts
    field_value,        \* what _extract_field_value returned
    fpc                 \* position of the _extract_field_value call

fldVars == <<data, field_path, field_value, fpc>>

VARIABLES
    config_file,        \* what the file at args.config holds
    no_ai,              \* args.no_ai
    config              \* main: config (the validated SiteConfig)

cfgVars == <<config_file, no_ai, config>>

VARIABLES
    deal_in,            \* the price, originalPrice and discountPercent given to DealOutput
    deal,               \* the DealOutput constructed (or the ValidationError)
    dpc                 \* position of the DealOutput call

dealVars == <<deal_in, deal, dpc>>

VARIABLES
    retries,            \* the Retry object's total: the retries still allowed
    attempt_log,        \* history: what each request of the fetch met
    fetch_result,       \* what _make_request returned
    rpc                 \* position of the _make_request call

rtyVars == <<retries, attempt_log, fetch_result, rpc>>

VARIABLES
    variant,            \* the adapter variant whose scrape loop runs
    custom_extractors,  \* CustomScraperModule.custom_extractors, by its keys
    item_nodes,         \* the item nodes the document parsed into
    item_pos,           \* position of the loop over items[:50]
    doc_content,        \* content_items, each with the node it was made from
    item_log,           \* history: one record per node the loop processed
    kpc                 \* position of the scrape loop

docVars == <<variant, custom_extractors, item_nodes, item_pos, doc_content,
             item_log, kpc>>

VARIABLES
    enh_raw,            \* enhance_content: raw_content
    enh_calls,          \* history: the capability calls made, in order
    enh_failed_at,      \* history: the call that raised ("none": no call did)
    enh_result,         \* what enhance_content returned (NoValue: it raised)
    npc                 \* position of the enhance_content call

enhVars == <<enh_raw, enh_calls, enh_failed_at, enh_result, npc>>

auxVars == <<cfgVars, dealVars, rtyVars, docVars, enhVars>>

benchVars == <<extVars, valVars, prjVars, fldVars, auxVars>>

vars == <<pipeVars, scrVars, benchVars>>

\* ---------------------------------------------------------- content models
\* A Raw Content as the pipeline reads it: image present or null, excerpt
\* length (0 is null), title class.
\* Title classes, by length and by the words the title has:
\*   normal        12 characters, no marker word      ("Laptop deal")
\*   long          490 characters, with a marker word
\*   punct         3 characters, all of them '!', '?' or '.'
\*   empty         the empty string
\*   short_marker  7 characters, with a marker word  ("Best TV")
\*   plain_long    40 characters, no marker word
\*   marker29, marker30   29 and 30 characters, with a marker word
\*   upper         40 characters, the marker word in capitals ("HOW TO ...")
\*   substring     40 characters, a marker only inside a word ("Laptop ...")
\*   question      40 characters, with a marker word, ending in "?"
\*   question_cut  the question without its final "?"
TitleLen(t) ==
    CASE t = "normal" -> 12
      [] t = "long" -> 490
      [] t = "punct" -> 3
      [] t = "empty" -> 0
      [] t = "short_marker" -> 7
      [] t = "marker29" -> 29
      [] t = "marker30" -> 30
      [] t \in {"plain_long", "upper", "substring", "question"} -> 40
      [] t = "question_cut" -> 39

RawKinds ==
    { [image |-> TRUE,  excerpt |-> 50,  title |-> "normal"],
      [image |-> FALSE, excerpt |-> 50,  title |-> "normal"],
      [image |-> TRUE,  excerpt |-> 5,   title |-> "normal"],
      [image |-> TRUE,  excerpt |-> 0,   title |-> "normal"],
      [image |-> TRUE,  excerpt |-> 0,   title |-> "long"],
      [image |-> TRUE,  excerpt |-> 50,  title |-> "punct"] }

RawLists == UNION { [1..n -> RawKinds] : n \in 0..MaxItems }

\* EnhancedContent.image is an HttpUrl: an absolute http(s) URL validates, the
\* relative placeholder path '/placeholder-deal.svg' does not.
ValidHttpUrl(image) == image \in {"url", "generated"}

\* EnhancedContent's field constraints: title 1..500, image HttpUrl,
\* excerpt a string of 10..500 characters.
ValidEnhanced(title, image, excerpt) ==
    /\ TitleLen(title) >= 1
    /\ TitleLen(title) <= TitleMax
    /\ ValidHttpUrl(image)
    /\ excerpt >= ExcerptMin
    /\ excerpt <= ExcerptMax

\* EnhancedContent.validate_title: strip, then rstrip('!?.').
EnhancedTitle(t) ==
    CASE t = "punct" -> "empty"
      [] t = "question" -> "question_cut"
      [] OTHER -> t

NoValue == [ok |-> FALSE]
Made(v) == [ok |-> TRUE, val |-> v]

\* EnhancedContent(...): the validated object, or a ValidationError.
NewEnhanced(src, title, image, excerpt, score, fields, notes) ==
    IF ValidEnhanced(title, image, excerpt)
    THEN Made([src |-> src, title |-> EnhancedTitle(title), image |-> image,
               excerpt |-> excerpt, quality_score |-> score,
               ai_generated_fields |-> fields, enhancement_notes |-> notes])
    ELSE NoValue

\* content.image or '/placeholder-deal.svg'
ImageOrPlaceholder(c) == IF c.image THEN "url" ELSE "placeholder"

\* content.excerpt or f"Learn more about {content.title}"
ExcerptOrLearnMore(c) ==
    IF c.excerpt # 0 THEN c.excerpt ELSE LearnMoreLen + TitleLen(c.title)

\* The degraded record _enhance_content builds in its except branch.
DegradedContent(src, c) ==
    NewEnhanced(src, c.title, ImageOrPlaceholder(c), ExcerptOrLearnMore(c),
                DegradedScore, {}, "failed")

\* The record _convert_raw_to_enhanced builds for one item.
PassThroughContent(src, c) ==
    NewEnhanced(src, c.title, ImageOrPlaceholder(c), ExcerptOrLearnMore(c),
                PassThroughScore, {}, "none")

\* ------------------------------------------------- enhancement (LLM stage)
\* What the LLM capability does during one enhance_content call: it raises,
\* or it returns an excerpt, a title and (asked for a missing image) an image.
\* echo: it returns the texts it was given, unchanged.
LLMOutcomes ==
    { [fails |-> TRUE,  echo |-> FALSE, excerpt |-> 50, title |-> "normal", image |-> "generated"],
      [fails |-> FALSE, echo |-> FALSE, excerpt |-> 50, title |-> "normal", image |-> "generated"],
      [fails |-> FALSE, echo |-> FALSE, excerpt |-> 50, title |-> "normal", image |-> "placeholder"],
      [fails |-> FALSE, echo |-> FALSE, excerpt |-> 5,  title |-> "normal", image |-> "generated"],
      [fails |-> FALSE, echo |-> TRUE,  excerpt |-> 50, title |-> "normal", image |-> "placeholder"] }

\* any(word in title.lower() for word in ['how','why','what','best','top']):
\* the test is on the lower-cased title and by substring.
HasMarker(t) ==
    t \in {"long", "short_marker", "marker29", "marker30", "upper",
           "substring", "question", "question_cut"}

\* "if len(raw_content.title) < 30 or not any(word in ...)"
ImproveTitle(c) == TitleLen(c.title) < TitleImproveBelow \/ ~HasMarker(c.title)

\* ContentEnhancerAgent.enhance_content: the Enhanced Content, or NoValue
\* when it raises (an LLM call failed, or EnhancedContent rejected the result).
EnhanceContent(src, c, o) ==
    IF o.fails THEN NoValue
    ELSE LET excerpt == IF o.echo THEN c.excerpt ELSE o.excerpt
             retitled == ImproveTitle(c) /\ ~o.echo
             title == IF retitled THEN o.title ELSE c.title
             image == IF c.image THEN "url" ELSE o.image
             fields == (IF o.echo THEN {} ELSE {"excerpt"})
                       \cup (IF retitled THEN {"title"} ELSE {})
                       \cup (IF c.image THEN {} ELSE {"image"})
         IN NewEnhanced(src, title, image, excerpt, EnhancedScore, fields, "enhanced")

\* The Raw Contents given to one enhance_content call.
TitleClasses ==
    {"normal", "long", "punct", "short_marker", "plain_long", "marker29",
     "marker30", "upper", "substring", "question"}

EnhanceInputs == [image : BOOLEAN, excerpt : {0, 50}, title : TitleClasses]

\* The capability calls enhance_content makes for c, in order.
PlannedCalls(c) ==
    <<"enhance_description">>
    \o (IF ImproveTitle(c) THEN <<"improve_title">> ELSE <<>>)
    \o (IF c.image THEN <<>> ELSE <<"generate_missing_content">>)

InitEnhance ==
    /\ enh_raw \in EnhanceInputs
    /\ enh_calls = <<>>
    /\ enh_failed_at = "none"
    /\ enh_result = NoValue
    /\ npc = "call"

IdleEnhance ==
    /\ enh_raw = [image |-> TRUE, excerpt |-> 50, title |-> "normal"]
    /\ enh_calls = <<>>
    /\ enh_failed_at = "none"
    /\ enh_result = NoValue
    /\ npc = "idle"

\* One call of enhance_content: the capability calls up to the one that
\* raises, or all of them and the EnhancedContent built from their results.
EnhanceCall ==
    /\ npc = "call"
    /\ \E o \in LLMOutcomes :
         IF o.fails
         THEN \E n \in 1..Len(PlannedCalls(enh_raw)) :
                /\ enh_calls' = SubSeq(PlannedCalls(enh_raw), 1, n)
                /\ enh_failed_at' = PlannedCalls(enh_raw)[n]
                /\ enh_result' = NoValue
         ELSE /\ enh_calls' = PlannedCalls(enh_raw)
              /\ enh_failed_at' = "none"
              /\ enh_result' = EnhanceContent(1, enh_raw, o)
    /\ npc' = "returned"
    /\ UNCHANGED enh_raw
    /\ UNCHANGED <<pipeVars, scrVars, extVars, valVars, prjVars, fldVars, cfgVars,
                   dealVars, rtyVars, docVars>>

\* --------------------------------------------------- validation (LLM stage)
\* validate_content_quality, after the LLM answered: the recommendation is
\* set from the overall score and the threshold.
Recommend(score, threshold) ==
    IF score >= ValidatedFrom THEN "validated"
    ELSE IF score >= threshold THEN "enhanced"
    ELSE "rejected"

\* The conservative assessment every except branch of the validator builds.
ConservativeResult ==
    [overall_quality_score |-> ConservativeScore, recommendation |-> "enhanced",
     issues_found |-> {"insufficient_information"}]

\* What the LLM does during one validate_content_quality call: it raises, or
\* it answers with a score, a recommendation of its own and some issues.
ValidatorOutcomes ==
    { [fails |-> TRUE, score |-> 0, proposed |-> "rejected", issues |-> {}] }
    \cup [fails : {FALSE}, score : {3, 5, 6, 7, 8, 9},
          proposed : {"validated", "enhanced", "rejected"},
          issues : {{}, {"low_content_quality"}}]

\* The tool validate_content_quality for one item.
ValidateContentQuality(o, threshold) ==
    IF o.fails THEN ConservativeResult
    ELSE [overall_quality_score |-> o.score,
          recommendation |-> Recommend(o.score, threshold),
          issues_found |-> o.issues]

\* Mutant of AppendResult: an item's failure resets the batch to defaults.
AppendResultResets(rs, o, r) ==
    IF o.fails THEN [k \in 1..(Len(rs) + 1) |-> ConservativeResult]
    ELSE Append(rs, r)

\* batch_validate_content: results.append(result)
AppendResult(rs, o, r) == Append(rs, r)

\* The list the except branch of batch_validate returns for n items.
BatchFallback(n) == [k \in 1..n |-> ConservativeResult]

\* The Quality Results the validation phase of a run is checked with: a
\* rejected, an accepted and an excellent assessment, and the default.
QualityResults ==
    { ValidateContentQuality([fails |-> FALSE, score |-> sc,
                              proposed |-> "enhanced", issues |-> {}],
                             QualityThreshold) : sc \in {3, 7, 9} }
    \cup {ConservativeResult}

\* The list batch_validate returns for n items: one result per item.
BatchResults(n) == [1..n -> QualityResults]

Min(a, b) == IF a <= b THEN a ELSE b

\* Mutant of FilterFrom: the validated score is not written to the item.
RECURSIVE FilterFromKeepsScore(_, _, _)
FilterFromKeepsScore(content, results, k) ==
    IF k > Min(Len(content), Len(results)) THEN <<>>
    ELSE IF results[k].recommendation \in {"validated", "enhanced"}
         THEN <<content[k]>> \o FilterFromKeepsScore(content, results, k + 1)
         ELSE FilterFromKeepsScore(content, results, k + 1)

\* QualityValidatorAgent.filter_high_quality_content, from position k on.
RECURSIVE FilterFrom(_, _, _)
FilterFrom(content, results, k) ==
    IF k > Min(Len(content), Len(results)) THEN <<>>
    ELSE IF results[k].recommendation \in {"validated", "enhanced"}
         THEN <<[content[k] EXCEPT !.quality_score = results[k].overall_quality_score]>>
              \o FilterFrom(content, results, k + 1)
         ELSE FilterFrom(content, results, k + 1)

FilterHighQuality(content, results) == FilterFrom(content, results, 1)

\* The items of content_list after the filter: the filter writes the
\* validated score into the objects it keeps, which the list shares.
Rescored(content, results) ==
    [k \in DOMAIN content |->
        IF k <= Len(results) /\ results[k].recommendation \in {"validated", "enhanced"}
        THEN [content[k] EXCEPT !.quality_score = results[k].overall_quality_score]
        ELSE content[k]]

\* ------------------------------------------------------------ pass-through
\* _convert_raw_to_enhanced, from position k on: an item whose EnhancedContent
\* is rejected is skipped.
RECURSIVE ConvertFrom(_, _)
ConvertFrom(raw, k) ==
    IF k > Len(raw) THEN <<>>
    ELSE LET r == PassThroughContent(k, raw[k])
         IN (IF r.ok THEN <<r.val>> ELSE <<>>) \o ConvertFrom(raw, k + 1)

ConvertRawToEnhanced(raw) == ConvertFrom(raw, 1)

\* --------------------------------------------------------------- projection
\* A content URL as the projection reads it: "amazon" in its host, "amazon"
\* elsewhere in it (path or query), a "?" in it.
Urls == [amazon_host : BOOLEAN, amazon_rest : BOOLEAN, query : BOOLEAN]

PlainUrl == [amazon_host |-> FALSE, amazon_rest |-> FALSE, query |-> FALSE]

\* A content date: a YYYY-MM-DD date, an ISO date-time, or a source-native
\* string neither format parses; a parseable one names day ContentDay.
Dates == {"date", "datetime", "native"}

\* 'amazon' in affiliate_url.lower()
ContainsAmazon(u) == u.amazon_host \/ u.amazon_rest

\* The affiliate URL: the content URL, and the tag parameter appended to it.
AffiliateUrl(u, tag) ==
    IF tag # "none" /\ ContainsAmazon(u)
    THEN [url |-> u, appended |-> IF u.query THEN "&tag=" ELSE "?tag=", tag |-> tag]
    ELSE [url |-> u, appended |-> "", tag |-> "none"]

\* DealOutput.validate_date_added: the parsed day, or today's when the
\* string does not parse.
ValidateDateAdded(d, now) == IF d \in {"date", "datetime"} THEN ContentDay ELSE now

\* Mutant of Featured: the comparison admits the boundary.
FeaturedAtLeast(score) == IF score # 0 THEN score >= FeaturedAbove ELSE FALSE

\* content.quality_score > 0.8 if content.quality_score else False
Featured(score) == IF score # 0 THEN score > FeaturedAbove ELSE FALSE

\* convert_to_deal_output: the Deal record, or NoValue when DealOutput's
\* validation raises (validate_deal_title on an empty title).  The id is the
\* digest of title and url; category and description are already clean.
ConvertToDealOutput(content, tag, now) ==
    IF content.title = "empty" THEN NoValue
    ELSE Made([src |-> content.src,
               id |-> <<content.title, content.url>>,
               title |-> content.title,
               imageUrl |-> content.image,
               category |-> content.category,
               description |-> content.excerpt,
               affiliateUrl |-> AffiliateUrl(content.url, tag),
               featured |-> Featured(content.quality_score),
               dateAdded |-> ValidateDateAdded(content.date, now)])

\* The projection of an item of a run: the run's items have plain URLs and
\* parseable dates, and no affiliate tag is configured.
DealOutput(e) ==
    ConvertToDealOutput([src |-> e.src, title |-> e.title, url |-> PlainUrl,
                         image |-> e.image, category |-> "General",
                         excerpt |-> e.excerpt, date |-> "date",
                         quality_score |-> e.quality_score],
                        "none", FirstDay)

\* _generate_output, from position k on.
RECURSIVE ProjectFrom(_, _)
ProjectFrom(content, k) ==
    IF k > Len(content) THEN <<>>
    ELSE LET r == DealOutput(content[k])
         IN (IF r.ok THEN <<r.val>> ELSE <<>>) \o ProjectFrom(content, k + 1)

GenerateOutput(content) == ProjectFrom(content, 1)

\* ------------------------------------------------------------------ summary
\* Mutant of CreateOutputSummary: total_items and successful_items are
\* given each other's count.
CreateOutputSummarySwapped(st, ai) ==
    [total_items |-> st.total_output,
     successful_items |-> st.total_scraped,
     failed_items |-> st.errors,
     ai_enhanced_count |-> IF ai THEN st.total_enhanced ELSE 0]

\* _create_output_summary
CreateOutputSummary(st, ai) ==
    [total_items |-> st.total_scraped,
     successful_items |-> st.total_output,
     failed_items |-> st.errors,
     ai_enhanced_count |-> IF ai THEN st.total_enhanced ELSE 0]

\* OutputSummary.success_rate, in whole percent (rounded down).
SuccessRate(s) ==
    IF s.total_items = 0 THEN 0 ELSE (s.successful_items * 100) \div s.total_items

\* ---------------------------------------------------------------- pipeline
NoSummary == NoValue
PriorFile == [state |-> "prior", records |-> <<>>]
ZeroStats == [total_scraped |-> 0, total_enhanced |-> 0, total_validated |-> 0,
              total_output |-> 0, errors |-> 0]

Terminal == {"done", "raised", "interrupted"}

\* The pipeline object after construction, at position p.
PipelineAt(p, ai) ==
    /\ pc = p
    /\ ai_agents_enabled = ai
    /\ raw_content = <<>>
    /\ enhanced_content = <<>>
    /\ idx = 1
    /\ validated_content = <<>>
    /\ output_data = <<>>
    /\ stats = ZeroStats
    /\ file = PriorFile
    /\ summary = NoSummary
    /\ exit_code = -1
    /\ phases = <<>>
    /\ llm_used = FALSE
    /\ failed_src = {}
    /\ quality = <<>>
    /\ write_failed = FALSE
    /\ enh_log = <<>>
    /\ batch_raised = FALSE

\* run_pipeline is entered: Phase 1 begins.
RunPipeline ==
    /\ pc = "start"
    /\ pc' = "scrape"
    /\ phases' = Append(phases, "SCRAPE")
    /\ UNCHANGED <<ai_agents_enabled, raw_content, enhanced_content, idx,
                   validated_content, output_data, stats, file, summary,
                   exit_code, llm_used, failed_src, enh_log, quality, write_failed>>
    /\ UNCHANGED batch_raised
    /\ UNCHANGED <<scrVars, benchVars>>

\* Mutant of AfterScrape: the AI-enabled flag is not consulted.
AfterScrapeIgnoresFlag(got, ai) ==
    IF got = <<>> THEN "done" ELSE "enhance"

\* run_pipeline after Phase 1: where it goes with the scraped list.
AfterScrape(got, ai) ==
    IF got = <<>> THEN "done" ELSE IF ai THEN "enhance" ELSE "convert"

\* Phase 1: _scrape_content, and the early return on an empty list.
ScrapeContent ==
    /\ pc = "scrape"
    /\ \E rc \in RawLists, raised \in BOOLEAN :
         /\ raised => rc = <<>>
         /\ LET st == [stats EXCEPT !.errors = @ + (IF raised THEN 1 ELSE 0),
                                    !.total_scraped = Len(rc)]
                next == AfterScrape(rc, ai_agents_enabled)
            IN /\ raw_content' = rc
               /\ stats' = st
               /\ pc' = next
               /\ summary' = IF next = "done"
                             THEN Made(CreateOutputSummary(st, ai_agents_enabled))
                             ELSE summary
               /\ exit_code' = IF next = "done" THEN 0 ELSE exit_code
               /\ phases' = CASE next = "done" -> Append(phases, "DONE")
                              [] next = "enhance" -> Append(phases, "ENHANCE")
                              [] OTHER -> phases
    /\ UNCHANGED <<ai_agents_enabled, enhanced_content, idx, validated_content,
                   output_data, file, llm_used, failed_src, enh_log, quality, write_failed>>
    /\ UNCHANGED batch_raised
    /\ UNCHANGED <<scrVars, benchVars>>

\* Phase 2, one turn of the item loop of _enhance_content.
EnhanceItem ==
    /\ pc = "enhance"
    /\ idx <= Len(raw_content)
    /\ \E o \in LLMOutcomes :
         LET c == raw_content[idx]
             r == EnhanceContent(idx, c, o)
             d == DegradedContent(idx, c)
         IN /\ llm_used' = TRUE
            /\ enh_log' = Append(enh_log, [src |-> idx, outcome |-> o, result |-> r])
            /\ IF r.ok
               THEN /\ enhanced_content' = Append(enhanced_content, r.val)
                    /\ idx' = idx + 1
                    /\ UNCHANGED <<stats, failed_src>>
               ELSE /\ failed_src' = failed_src \cup {idx}
                    /\ stats' = [stats EXCEPT !.errors = @ + 1]
                    /\ IF d.ok
                       THEN /\ enhanced_content' = Append(enhanced_content, d.val)
                            /\ idx' = idx + 1
                       ELSE \* the except branch itself raises: the outer
                            \* handler returns an empty list
                            /\ enhanced_content' = <<>>
                            /\ idx' = Len(raw_content) + 1
    /\ UNCHANGED <<pc, ai_agents_enabled, raw_content, validated_content,
                   output_data, file, summary, exit_code, phases, quality,
                   write_failed>>
    /\ UNCHANGED batch_raised
    /\ UNCHANGED <<scrVars, benchVars>>

\* Phase 2 returns; Phase 3 begins.
EnhanceReturn ==
    /\ pc = "enhance"
    /\ idx > Len(raw_content)
    /\ stats' = [stats EXCEPT !.total_enhanced = Len(enhanced_content)]
    /\ pc' = "validate"
    /\ phases' = Append(phases, "VALIDATE")
    /\ UNCHANGED <<ai_agents_enabled, raw_content, enhanced_content, idx,
                   validated_content, output_data, file, summary, exit_code,
                   llm_used, failed_src, enh_log, quality, write_failed>>
    /\ UNCHANGED batch_raised
    /\ UNCHANGED <<scrVars, benchVars>>

\* Phase 3: _validate_content (batch_validate, then the filter).  When the
\* agent run raises, batch_validate itself catches the exception and returns
\* its fallback list, so nothing reaches _validate_content's handler.
ValidateContent ==
    /\ pc = "validate"
    /\ \E raised \in BOOLEAN, q \in BatchResults(Len(enhanced_content)) :
         LET v == FilterHighQuality(enhanced_content, q)
         IN /\ raised => q = BatchFallback(Len(enhanced_content))
            /\ batch_raised' = raised
            /\ quality' = q
            /\ validated_content' = v
            /\ enhanced_content' = Rescored(enhanced_content, q)
            /\ stats' = [stats EXCEPT !.total_validated = Len(v)]
    /\ llm_used' = TRUE
    /\ pc' = "project"
    /\ phases' = Append(phases, "PROJECT")
    /\ UNCHANGED <<ai_agents_enabled, raw_content, idx, output_data, file,
                   summary, exit_code, failed_src, enh_log, write_failed>>
    /\ UNCHANGED <<scrVars, benchVars>>

\* AI disabled: _convert_raw_to_enhanced stands in for Phases 2 and 3.
ConvertContent ==
    /\ pc = "convert"
    /\ LET v == ConvertRawToEnhanced(raw_content)
       IN /\ validated_content' = v
          /\ stats' = [stats EXCEPT !.errors = @ + (Len(raw_content) - Len(v)),
                                    !.total_enhanced = Len(v),
                                    !.total_validated = Len(v)]
    /\ pc' = "project"
    /\ phases' = Append(phases, "PROJECT")
    /\ UNCHANGED <<ai_agents_enabled, raw_content, enhanced_content, idx,
                   output_data, file, summary, exit_code, llm_used, failed_src, enh_log,
                   quality, write_failed>>
    /\ UNCHANGED batch_raised
    /\ UNCHANGED <<scrVars, benchVars>>

\* Phase 4: _generate_output.
ProjectContent ==
    /\ pc = "project"
    /\ LET out == GenerateOutput(validated_content)
       IN /\ output_data' = out
          /\ stats' = [stats EXCEPT !.errors = @ + (Len(validated_content) - Len(out)),
                                    !.total_output = Len(out)]
    /\ pc' = "write"
    /\ phases' = Append(phases, "WRITE")
    /\ UNCHANGED <<ai_agents_enabled, raw_content, enhanced_content, idx,
                   validated_content, file, summary, exit_code, llm_used,
                   failed_src, enh_log, quality, write_failed>>
    /\ UNCHANGED batch_raised
    /\ UNCHANGED <<scrVars, benchVars>>

\* Mutant of WriteFails: the handler logs the error and does not re-raise.
WriteFailsSwallowed ==
    /\ stats' = [stats EXCEPT !.errors = @ + 1]
    /\ write_failed' = TRUE
    /\ pc' = "done"
    /\ exit_code' = 0

\* An I/O error inside _write_output_file: counted there and again by
\* run_pipeline's handler, re-raised to main, which returns 1.
WriteFails ==
    /\ stats' = [stats EXCEPT !.errors = @ + 2]
    /\ write_failed' = TRUE
    /\ pc' = "raised"
    /\ exit_code' = 1

\* open(output_file, 'w') on the output path: it truncates the file.
OpenForWrite(f) == [state |-> "partial", records |-> <<>>]

\* Phase 5: mkdir and open(output_file, 'w').
WriteOpen ==
    /\ pc = "write"
    /\ \/ /\ file' = OpenForWrite(file)
          /\ pc' = "dump"
          /\ UNCHANGED <<stats, write_failed, exit_code>>
       \/ /\ WriteFails
          /\ UNCHANGED file
    /\ UNCHANGED <<ai_agents_enabled, raw_content, enhanced_content, idx,
                   validated_content, output_data, summary, phases, llm_used,
                   failed_src, enh_log, quality>>
    /\ UNCHANGED batch_raised
    /\ UNCHANGED <<scrVars, benchVars>>

\* Phase 5: json.dump streams the next record to the open file.
WriteDump ==
    /\ pc = "dump"
    /\ Len(file.records) < Len(output_data)
    /\ \/ /\ file' = [file EXCEPT !.records = Append(@, output_data[Len(@) + 1])]
          /\ UNCHANGED <<pc, stats, write_failed, exit_code>>
       \/ /\ WriteFails
          /\ UNCHANGED file
    /\ UNCHANGED <<ai_agents_enabled, raw_content, enhanced_content, idx,
                   validated_content, output_data, summary, phases, llm_used,
                   failed_src, enh_log, quality>>
    /\ UNCHANGED batch_raised
    /\ UNCHANGED <<scrVars, benchVars>>

\* Phase 5 ends: the array is closed, the file is closed, the summary is
\* returned and main returns 0.
WriteClose ==
    /\ pc = "dump"
    /\ Len(file.records) = Len(output_data)
    /\ file' = [file EXCEPT !.state = "complete"]
    /\ summary' = Made(CreateOutputSummary(stats, ai_agents_enabled))
    /\ pc' = "done"
    /\ exit_code' = 0
    /\ phases' = Append(phases, "DONE")
    /\ UNCHANGED <<ai_agents_enabled, raw_content, enhanced_content, idx,
                   validated_content, output_data, stats, llm_used, failed_src, enh_log,
                   quality, write_failed>>
    /\ UNCHANGED batch_raised
    /\ UNCHANGED <<scrVars, benchVars>>

\* A keyboard interrupt: no handler of the pipeline catches it, an open file
\* is closed as it is, main returns 1.
Interrupt ==
    /\ pc \notin Terminal \cup {"idle"}
    /\ pc' = "interrupted"
    /\ exit_code' = 1
    /\ UNCHANGED <<ai_agents_enabled, raw_content, enhanced_content, idx,
                   validated_content, output_data, stats, file, summary,
                   phases, llm_used, failed_src, enh_log, quality, write_failed>>
    /\ UNCHANGED batch_raised
    /\ UNCHANGED <<scrVars, benchVars>>

\* -------------------------------------------------------------- fetch layer
URLs == {"u1", "u2"}
ETags == {1, 2}
LastModifieds == {1}

\* A cache entry holds the validators last kept for a URL (0: the key is
\* absent); a URL without an entry reads as NoEntry.
NoEntry == [etag |-> 0, last_modified |-> 0]

\* What session.get does: it raises a RequestException (connection error,
\* timeout, retries exhausted), or returns a response with a status, maybe an
\* ETag and a Last-Modified header, and a document of some entries that the
\* feed parser accepts or chokes on.
TransportError ==
    [kind |-> "error", status |-> 0, etag |-> 0, last_modified |-> 0,
     entries |-> 0, parse_ok |-> TRUE]

HttpResponses ==
    { r \in [kind : {"http"}, status : {200, 304, 404},
             etag : {0} \cup ETags, last_modified : {0} \cup LastModifieds,
             entries : 0..MaxEntries, parse_ok : BOOLEAN] :
        /\ r.status # 200 => (r.entries = 0 /\ r.parse_ok)
        /\ ~r.parse_ok => r.entries = 0 }

Responses == {TransportError} \cup HttpResponses

\* Mutant of MakeRequest: the headers are cached before the 304 test.
MakeRequestCacheFirst(c, url, use_cache, resp) ==
    LET sent == IF use_cache THEN c[url] ELSE NoEntry
        kept == IF use_cache /\ (resp.etag # 0 \/ resp.last_modified # 0)
                THEN [c EXCEPT ![url] = [etag |-> resp.etag,
                                         last_modified |-> resp.last_modified]]
                ELSE c
    IN IF resp.kind = "error" THEN [ok |-> FALSE, cache |-> c, sent |-> sent]
       ELSE IF resp.status = 304 THEN [ok |-> FALSE, cache |-> kept, sent |-> sent]
       ELSE IF resp.status >= 400 THEN [ok |-> FALSE, cache |-> kept, sent |-> sent]
       ELSE [ok |-> TRUE, cache |-> kept, sent |-> sent]

\* BaseScraperModule._make_request: the response handed to the adapter (ok)
\* or None, the cache afterwards, and the conditional headers it sent.
MakeRequest(c, url, use_cache, resp) ==
    LET sent == IF use_cache THEN c[url] ELSE NoEntry
        kept == IF use_cache /\ (resp.etag # 0 \/ resp.last_modified # 0)
                THEN [c EXCEPT ![url] = [etag |-> resp.etag,
                                         last_modified |-> resp.last_modified]]
                ELSE c
    IN IF resp.kind = "error" THEN [ok |-> FALSE, cache |-> c, sent |-> sent]
       ELSE IF resp.status = 304 THEN [ok |-> FALSE, cache |-> c, sent |-> sent]
       ELSE IF resp.status >= 400 THEN [ok |-> FALSE, cache |-> kept, sent |-> sent]
       ELSE [ok |-> TRUE, cache |-> kept, sent |-> sent]

\* RSSScraperModule.scrape_feed for the feed at position pos: the items it
\* returns, or raised when it ends in a ScraperError.
ScrapeFeed(c, url, pos, resp) ==
    LET rq == MakeRequest(c, url, TRUE, resp)
    IN IF ~rq.ok
       THEN [items |-> <<>>, raised |-> FALSE, parsed |-> FALSE,
             cache |-> rq.cache, sent |-> rq.sent]
       ELSE IF ~resp.parse_ok
       THEN [items |-> <<>>, raised |-> TRUE, parsed |-> TRUE,
             cache |-> rq.cache, sent |-> rq.sent]
       ELSE [items |-> [k \in 1..resp.entries |-> <<pos, k>>], raised |-> FALSE,
             parsed |-> TRUE, cache |-> rq.cache, sent |-> rq.sent]

\* WordPressScraperModule.scrape_feed of a feed-format URL (one without
\* '/wp-json/' and not ending in '.json'): _scrape_wordpress_rss builds a new
\* RSSScraperModule, whose cache is empty, and scrapes with it; the
\* adapter's own cache is not touched.
ScrapeWordpressRss(c, url, pos, resp) ==
    LET r == ScrapeFeed([u \in URLs |-> NoEntry], url, pos, resp)
    IN [r EXCEPT !.cache = c]

\* scrape_feed of the adapter object; the configured URLs are feed-format.
ScrapeFeedOf(type, c, url, pos, resp) ==
    IF type = "wordpress" THEN ScrapeWordpressRss(c, url, pos, resp)
    ELSE ScrapeFeed(c, url, pos, resp)

\* Mutant of ExtendContent: the feed's items replace the list.
ExtendContentAssign(all, r) == IF r.raised THEN all ELSE r.items

\* scrape_all_feeds: all_content after one feed's turn of the loop.
ExtendContent(all, r) == IF r.raised THEN all ELSE all \o r.items

InitScraper ==
    /\ adapter_type \in {"rss", "wordpress"}
    /\ feeds \in UNION { [1..n -> URLs] : n \in 1..MaxFeeds }
    /\ cache = [u \in URLs |-> NoEntry]
    /\ feed_pos = 1
    /\ all_content = <<>>
    /\ spc = "loop"
    /\ feed_log = <<>>

IdleScraper ==
    /\ adapter_type = "rss"
    /\ feeds = <<"u1">>
    /\ cache = [u \in URLs |-> NoEntry]
    /\ feed_pos = 1
    /\ all_content = <<>>
    /\ spc = "idle"
    /\ feed_log = <<>>

\* One turn of the feed loop of scrape_all_feeds.
ScrapeNextFeed ==
    /\ spc = "loop"
    /\ feed_pos <= Len(feeds)
    /\ \E resp \in Responses :
         LET url == feeds[feed_pos]
             r == ScrapeFeedOf(adapter_type, cache, url, feed_pos, resp)
         IN /\ cache' = r.cache
            /\ all_content' = ExtendContent(all_content, r)
            /\ feed_log' = Append(feed_log,
                                  [url |-> url, resp |-> resp, sent |-> r.sent,
                                   cache_before |-> cache, cache_after |-> r.cache,
                                   items |-> r.items, raised |-> r.raised,
                                   parsed |-> r.parsed])
    /\ feed_pos' = feed_pos + 1
    /\ UNCHANGED <<adapter_type, feeds, spc>>
    /\ UNCHANGED <<pipeVars, benchVars>>

\* scrape_all_feeds returns all_content.
ScrapeAllReturn ==
    /\ spc = "loop"
    /\ feed_pos > Len(feeds)
    /\ spc' = "returned"
    /\ UNCHANGED <<adapter_type, feeds, cache, feed_pos, all_content, feed_log>>
    /\ UNCHANGED <<pipeVars, benchVars>>

\* ---------------------------------------------------------- entry extraction
\* The adapter variants: the feed adapter, the WordPress REST adapter and the
\* custom adapter's JSON, XML and HTML paths.  (custom_extractors is empty:
\* main builds CustomScraperModule(config, settings).)
Variants == {"rss", "wordpress", "json", "xml", "html"}

\* An entry of a fetched document as extraction reads it, after the
\* configured field and its fallbacks were looked up.
\* title: none (no value), blank (white space only), markup (tags, entities
\*        or empty brackets that clean to nothing), normal, punct.
\* url:   none, blank, relative ("/deals/1"), absolute (http or https),
\*        nonhttp (another scheme).
\* image: none, absolute, relative.
\* date:  none (no value), unparseable (text dateutil cannot parse), fresh
\*        (parses to a time within the last 30 days), old (parses to an
\*        earlier time).
EntryKinds ==
    { [title |-> t, url |-> u, image |-> "absolute", date |-> "fresh"] :
        t \in {"none", "blank", "markup", "normal", "punct"},
        u \in {"none", "blank", "relative", "absolute", "nonhttp"} }
    \cup { [title |-> "normal", url |-> "absolute", image |-> i, date |-> d] :
             i \in {"none", "absolute", "relative"},
             d \in {"none", "unparseable", "fresh", "old"} }

\* Python truth of an optional string: None and "" are false.
Truthy(x) == x \notin {"none", "empty"}

\* str.strip()
Strip(x) == IF x = "blank" THEN "empty" ELSE x

\* BaseScraperModule._clean_text: None for no text and for text that cleans
\* to nothing.
CleanText(t) == IF t \in {"none", "empty", "blank", "markup"} THEN "none" ELSE t

\* Mutant of NewRawContent: url is kept as a plain string.
NewRawContentUrlAsStr(title, url, image, source_data, scraper_type) ==
    IF /\ title \in {"markup", "normal", "punct"}
       /\ Truthy(url)
       /\ image \in {"none", "absolute"}
       /\ source_data = "dict"
    THEN Made([title |-> title, url |-> url, image |-> image,
               scraper_type |-> scraper_type])
    ELSE NoValue

\* RawContent(...): title is a string of 1..500 characters after stripping,
\* url an HttpUrl, image an HttpUrl or None, source_data a dict; anything
\* else is a ValidationError.
NewRawContent(title, url, image, source_data, scraper_type) ==
    IF /\ title \in {"markup", "normal", "punct"}
       /\ url = "absolute"
       /\ image \in {"none", "absolute"}
       /\ source_data = "dict"
    THEN Made([title |-> title, url |-> url, image |-> image,
               scraper_type |-> scraper_type])
    ELSE NoValue

\* RSSScraperModule._extract_content_from_entry
ExtractContentFromEntry(e) ==
    LET title == CleanText(e.title)
        url == Strip(e.url)
        image == IF e.image = "relative" THEN "none" ELSE e.image
    IN IF ~Truthy(title) \/ ~Truthy(url) THEN NoValue
       ELSE NewRawContent(title, url, image, "dict", "rss")

\* WordPressScraperModule._extract_content_from_wp_post
ExtractContentFromWpPost(e) ==
    LET title == CleanText(e.title)
        url == Strip(e.url)
        image == IF e.image = "relative" THEN "absolute" ELSE e.image
    IN IF ~Truthy(title) \/ ~Truthy(url) THEN NoValue
       ELSE NewRawContent(title, url, image, "dict", "wordpress")

\* CustomScraperModule._extract_content_from_json_item
ExtractContentFromJsonItem(e) ==
    LET title == Strip(e.title)
        url == Strip(e.url)
    IN IF ~Truthy(title) \/ ~Truthy(url) THEN NoValue
       ELSE NewRawContent(CleanText(title), url, e.image, "dict", "custom")

\* CustomScraperModule._extract_content_from_xml_item: source_data is given
\* str(item_element).
ExtractContentFromXmlItem(e) ==
    LET title == Strip(e.title)
        url == Strip(e.url)
    IN IF ~Truthy(title) \/ ~Truthy(url) THEN NoValue
       ELSE NewRawContent(CleanText(title), url, e.image, "str", "custom")

\* CustomScraperModule._extract_content_from_html_item: a url that starts
\* with "/" is joined to the page's URL.
ExtractContentFromHtmlItem(e) ==
    LET title == Strip(e.title)
        url == IF e.url = "relative" THEN "absolute" ELSE e.url
    IN IF ~Truthy(title) \/ ~Truthy(e.url) THEN NoValue
       ELSE NewRawContent(CleanText(title), url, e.image, "str", "custom")

\* The extraction the adapter variant v applies to an entry.
ExtractContent(v, e) ==
    CASE v = "rss" -> ExtractContentFromEntry(e)
      [] v = "wordpress" -> ExtractContentFromWpPost(e)
      [] v = "json" -> ExtractContentFromJsonItem(e)
      [] v = "xml" -> ExtractContentFromXmlItem(e)
      [] v = "html" -> ExtractContentFromHtmlItem(e)

\* BaseScraperModule._is_recent_content: no date and a date that does not
\* parse are included.
IsRecentContent(date) == date # "old"

\* The test before content_items.append(content) in each scrape loop:
\* "if content and self._is_recent_content(content.date)", and on the HTML
\* path "if content".
IsKept(v, e, r) == r.ok /\ (v = "html" \/ IsRecentContent(e.date))

InitExtract ==
    /\ adapter \in Variants
    /\ entry_pos = 1
    /\ content_items = <<>>
    /\ epc = "loop"
    /\ entry_log = <<>>

IdleExtract ==
    /\ adapter = "rss"
    /\ entry_pos = 1
    /\ content_items = <<>>
    /\ epc = "idle"
    /\ entry_log = <<>>

\* One turn of the entry loop of scrape_feed: extract, test the age, append.
ExtractEntry ==
    /\ epc = "loop"
    /\ entry_pos <= MaxEntries
    /\ \E e \in EntryKinds :
         LET r == ExtractContent(adapter, e)
             kept == IsKept(adapter, e, r)
         IN /\ content_items' = IF kept THEN Append(content_items, r.val)
                                ELSE content_items
            /\ entry_log' = Append(entry_log, [entry |-> e, kept |-> kept])
    /\ entry_pos' = entry_pos + 1
    /\ UNCHANGED <<adapter, epc>>
    /\ UNCHANGED <<pipeVars, scrVars, valVars, prjVars, fldVars, auxVars>>

\* The document has no more entries: scrape_feed returns content_items.
ExtractReturn ==
    /\ epc = "loop"
    /\ epc' = "returned"
    /\ UNCHANGED <<adapter, entry_pos, content_items, entry_log>>
    /\ UNCHANGED <<pipeVars, scrVars, valVars, prjVars, fldVars, auxVars>>

\* ------------------------------------------------------ the scrape loop
\* The keys custom_extractors can hold.
CustomPaths == {"json", "xml", "html"}

\* Entries of a long document.
FreshEntry ==
    [title |-> "normal", url |-> "absolute", image |-> "absolute", date |-> "fresh"]
OldEntry == [FreshEntry EXCEPT !.date = "old"]
UndatedEntry == [FreshEntry EXCEPT !.date = "none"]
UnparseableEntry == [FreshEntry EXCEPT !.date = "unparseable"]
UntitledEntry == [FreshEntry EXCEPT !.title = "none"]

\* The shapes of the documents scraped: every node usable, every node old,
\* the five kinds of node in turn, only the nodes after the 50th usable.
DocShapes == {"fresh", "old", "mixed", "tail"}

\* The node at position i of a document of shape p.
ItemAt(p, i) ==
    CASE p = "fresh" -> FreshEntry
      [] p = "old" -> OldEntry
      [] p = "mixed" ->
           CASE i % 5 = 1 -> FreshEntry
             [] i % 5 = 2 -> OldEntry
             [] i % 5 = 3 -> UndatedEntry
             [] i % 5 = 4 -> UnparseableEntry
             [] OTHER -> UntitledEntry
      [] p = "tail" -> IF i > ItemCap THEN FreshEntry ELSE UntitledEntry

\* The lengths of the documents scraped, around the cap.
DocLengths == {0, 1, ItemCap - 1, ItemCap, ItemCap + 1, ItemCap + MaxEntries}

ScrapedDocuments ==
    { [i \in 1..n |-> ItemAt(p, i)] : n \in DocLengths, p \in DocShapes }

\* Mutant of Sliced: the loop runs over the whole list.
SlicedNot(list) == list

\* list[:50]
Sliced(list) ==
    IF Len(list) <= ItemCap THEN list ELSE SubSeq(list, 1, ItemCap)

\* A custom extractor, as example_json_extractor: title and url are taken
\* as they are, source_data is the item.
CustomExtractor(e) ==
    IF ~Truthy(e.title) \/ ~Truthy(e.url) THEN NoValue
    ELSE NewRawContent(e.title, e.url, e.image, "dict", "custom")

\* _extract_content_from_{json,xml,html}_item: "if '<path>' in
\* self.custom_extractors: return self.custom_extractors['<path>'](...)",
\* else the default extraction.
ExtractContentWith(extractors, v, e) ==
    IF v \in extractors THEN CustomExtractor(e) ELSE ExtractContent(v, e)

\* Only the custom adapter takes custom_extractors; the extractor of
\* another path than the one scraped is never called.
InitDocument ==
    /\ variant \in Variants
    /\ custom_extractors \in SUBSET CustomPaths
    /\ custom_extractors \subseteq {variant}
    /\ item_nodes \in ScrapedDocuments
    /\ item_pos = 1
    /\ doc_content = <<>>
    /\ item_log = <<>>
    /\ kpc = "loop"

IdleDocument ==
    /\ variant = "rss"
    /\ custom_extractors = {}
    /\ item_nodes = <<>>
    /\ item_pos = 1
    /\ doc_content = <<>>
    /\ item_log = <<>>
    /\ kpc = "idle"

\* One turn of "for item in items[:50]": extract, test, append.
ScrapeItem ==
    /\ kpc = "loop"
    /\ item_pos <= Len(Sliced(item_nodes))
    /\ LET e == Sliced(item_nodes)[item_pos]
           r == ExtractContentWith(custom_extractors, variant, e)
           kept == IsKept(variant, e, r)
       IN /\ doc_content' =
                IF kept THEN Append(doc_content, [node |-> item_pos, content |-> r.val])
                ELSE doc_content
          /\ item_log' = Append(item_log, [node |-> item_pos, entry |-> e,
                                           kept |-> kept])
    /\ item_pos' = item_pos + 1
    /\ UNCHANGED <<variant, custom_extractors, item_nodes, kpc>>
    /\ UNCHANGED <<pipeVars, scrVars, extVars, valVars, prjVars, fldVars, cfgVars,
                   dealVars, rtyVars, enhVars>>

\* The loop is over: content_items is returned.
ScrapeReturn ==
    /\ kpc = "loop"
    /\ item_pos > Len(Sliced(item_nodes))
    /\ kpc' = "returned"
    /\ UNCHANGED <<variant, custom_extractors, item_nodes, item_pos, doc_content,
                   item_log>>
    /\ UNCHANGED <<pipeVars, scrVars, extVars, valVars, prjVars, fldVars, cfgVars,
                   dealVars, rtyVars, enhVars>>

\* ------------------------------------------------------- validator calls
InitValidator ==
    /\ val_mode \in {"single", "batch"}
    /\ batch_size \in 0..MaxItems
    /\ val_mode = "single" => batch_size = 1
    /\ val_pos = 1
    /\ batch_results = <<>>
    /\ vpc = "run"
    /\ val_log = <<>>
    /\ run_failed = FALSE

IdleValidator ==
    /\ val_mode = "batch"
    /\ batch_size = 0
    /\ val_pos = 1
    /\ batch_results = <<>>
    /\ vpc = "idle"
    /\ val_log = <<>>
    /\ run_failed = FALSE

\* QualityValidatorAgent.validate_content: the agent runs the tool on the
\* item and its result is returned.
ValidateSingle ==
    /\ vpc = "run"
    /\ val_mode = "single"
    /\ \E o \in ValidatorOutcomes :
         /\ batch_results' = <<ValidateContentQuality(o, QualityThreshold)>>
         /\ val_log' = <<o>>
    /\ val_pos' = val_pos + 1
    /\ vpc' = "returned"
    /\ UNCHANGED <<val_mode, batch_size, run_failed>>
    /\ UNCHANGED <<pipeVars, scrVars, extVars, prjVars, fldVars, auxVars>>

\* One turn of the item loop of batch_validate_content.
ValidateItem ==
    /\ vpc = "run"
    /\ val_mode = "batch"
    /\ val_pos <= batch_size
    /\ \E o \in ValidatorOutcomes :
         /\ batch_results' = AppendResult(batch_results, o,
                                    ValidateContentQuality(o, QualityThreshold))
         /\ val_log' = Append(val_log, o)
    /\ val_pos' = val_pos + 1
    /\ UNCHANGED <<val_mode, batch_size, vpc, run_failed>>
    /\ UNCHANGED <<pipeVars, scrVars, extVars, prjVars, fldVars, auxVars>>

\* The loop is over: batch_validate returns the tool's list.
BatchReturn ==
    /\ vpc = "run"
    /\ val_mode = "batch"
    /\ val_pos > batch_size
    /\ vpc' = "returned"
    /\ UNCHANGED <<val_mode, batch_size, val_pos, batch_results, val_log, run_failed>>
    /\ UNCHANGED <<pipeVars, scrVars, extVars, prjVars, fldVars, auxVars>>

\* The agent run raises: the wrapper's except branch returns the defaults.
RunRaises ==
    /\ vpc = "run"
    /\ batch_results' = BatchFallback(batch_size)
    /\ run_failed' = TRUE
    /\ vpc' = "returned"
    /\ UNCHANGED <<val_mode, batch_size, val_pos, val_log>>
    /\ UNCHANGED <<pipeVars, scrVars, extVars, prjVars, fldVars, auxVars>>

\* ------------------------------------------------------ projection calls
\* The Enhanced Content objects the pipeline can hand to the projection.
EnhancedKinds ==
    [src : {0}, title : {"normal", "empty"}, url : Urls, image : {"url"},
     category : {"General"}, excerpt : {50}, date : Dates,
     quality_score : {0, ConservativeScore, EnhancedScore, 9}]

InitProject ==
    /\ prj_content \in EnhancedKinds
    /\ affiliate_tag \in {"none", "tag"}
    /\ today = FirstDay
    /\ projected = <<>>

IdleProject ==
    /\ prj_content = [src |-> 0, title |-> "normal", url |-> PlainUrl,
                      image |-> "url", category |-> "General", excerpt |-> 50,
                      date |-> "date", quality_score |-> 0]
    /\ affiliate_tag = "idle"
    /\ today = FirstDay
    /\ projected = <<>>

\* convert_to_deal_output(content, config) is called.
Project ==
    /\ affiliate_tag # "idle"
    /\ Len(projected) < 2
    /\ projected' = Append(projected,
                           ConvertToDealOutput(prj_content, affiliate_tag, today))
    /\ UNCHANGED <<prj_content, affiliate_tag, today>>
    /\ UNCHANGED <<pipeVars, scrVars, extVars, valVars, fldVars, auxVars>>

\* Midnight passes.
ClockTick ==
    /\ affiliate_tag # "idle"
    /\ today < MaxDays
    /\ today' = today + 1
    /\ UNCHANGED <<prj_content, affiliate_tag, projected>>
    /\ UNCHANGED <<pipeVars, scrVars, extVars, valVars, fldVars, auxVars>>

\* -------------------------------------------------------- field extraction
\* The values of a nested document: strings, numbers, null, mappings and
\* sequences.
StrNode(v) == [t |-> "str", v |-> v]
NumNode(n) == [t |-> "num", n |-> n]
NullNode == [t |-> "null"]
MapNode(kv) == [t |-> "map", kv |-> kv]
ListNode(items) == [t |-> "list", items |-> items]

\* {"a": {"b": [{"url": "X"}]}}
UrlDocument ==
    MapNode("a" :> MapNode("b" :> ListNode(<<MapNode("url" :> StrNode("X"))>>)))

\* {"a": [" P ", 7], "b": {"a": " Q ", "b": null, "x": [], "0": "zero"},
\*  "url": {"url": " U ", "a": "v"}, "x": {"a": [["deep"]], "url": null},
\*  "0": 7, "": ""}
MixedDocument ==
    MapNode("a" :> ListNode(<<StrNode(" P "), NumNode(7)>>)
         @@ "b" :> MapNode("a" :> StrNode(" Q ") @@ "b" :> NullNode
                        @@ "x" :> ListNode(<<>>) @@ "0" :> StrNode("zero"))
         @@ "url" :> MapNode("url" :> StrNode(" U ") @@ "a" :> StrNode("v"))
         @@ "x" :> MapNode("a" :> ListNode(<<ListNode(<<StrNode("deep")>>)>>)
                        @@ "url" :> NullNode)
         @@ "0" :> NumNode(7)
         @@ "" :> StrNode(""))

Documents == <<UrlDocument, MixedDocument>>

\* The parts a path is made of ("a.b.0" is <<"a", "b", "0">>): keys, decimal
\* indexes, a negative index, a digit int() does not read, the empty part.
Parts == {"a", "b", "url", "x", "0", "1", "5", "-1", "sup2", ""}

Paths == UNION { [1..n -> Parts] : n \in 1..MaxPath }

\* str.isdigit()
IsDigit(part) == part \in {"0", "1", "5", "sup2"}

\* int(part): the number, or -1 where int raises ValueError.
IntOf(part) ==
    CASE part = "0" -> 0
      [] part = "1" -> 1
      [] part = "5" -> 5
      [] OTHER -> -1

\* str.strip() of the strings of the documents.
StripStr(v) ==
    CASE v = " P " -> "P"
      [] v = " Q " -> "Q"
      [] v = " U " -> "U"
      [] OTHER -> v

\* str(value): the string itself, or the string form of another value.
PyStr(value) ==
    IF value.t = "str" THEN [text |-> value.v] ELSE [form_of |-> value]

\* str(value).strip()
PyStrStripped(value) ==
    IF value.t = "str" THEN [text |-> StripStr(value.v)] ELSE [form_of |-> value]

\* One turn of the loop over the parts: the next value, or NoValue where
\* the function returns None (also from its except branch).
Step(value, part) ==
    IF value.t = "map"
    THEN (IF part \in DOMAIN value.kv THEN Made(value.kv[part]) ELSE Made(NullNode))
    ELSE IF value.t = "list" /\ IsDigit(part)
    THEN (IF part = "sup2" THEN NoValue
          ELSE IF 0 <= IntOf(part) /\ IntOf(part) < Len(value.items)
          THEN Made(value.items[IntOf(part) + 1])
          ELSE Made(NullNode))
    ELSE NoValue

\* The loop of _extract_field_value from part i on.
RECURSIVE Traverse(_, _, _)
Traverse(value, parts, i) ==
    IF i > Len(parts) THEN Made(value)
    ELSE LET next == Step(value, parts[i])
         IN IF ~next.ok THEN NoValue
            ELSE IF next.val.t = "null" THEN NoValue
            ELSE Traverse(next.val, parts, i + 1)

\* Mutant of ConvertToString: a mapping's "url" entry is not looked at.
ConvertToStringNoUrl(value) ==
    IF value.t = "map" THEN PyStr(value)
    ELSE IF value.t = "list"
    THEN (IF value.items # <<>> THEN PyStr(value.items[1]) ELSE PyStr(value))
    ELSE PyStrStripped(value)

\* The conversion of the value the path ends on.
ConvertToString(value) ==
    IF value.t = "map"
    THEN (IF "url" \in DOMAIN value.kv THEN PyStr(value.kv["url"]) ELSE PyStr(value))
    ELSE IF value.t = "list"
    THEN (IF value.items # <<>> THEN PyStr(value.items[1]) ELSE PyStr(value))
    ELSE PyStrStripped(value)

\* BaseScraperModule._extract_field_value
ExtractFieldValue(d, parts) ==
    LET r == Traverse(d, parts, 1)
    IN IF r.ok THEN Made(ConvertToString(r.val)) ELSE NoValue

InitField ==
    /\ \E k \in DOMAIN Documents : data = Documents[k]
    /\ field_path \in Paths
    /\ field_value = NoValue
    /\ fpc = "call"

IdleField ==
    /\ data = UrlDocument
    /\ field_path = <<"a">>
    /\ field_value = NoValue
    /\ fpc = "idle"

\* _extract_field_value(data, field_path) runs and returns.
ExtractField ==
    /\ fpc = "call"
    /\ field_value' = ExtractFieldValue(data, field_path)
    /\ fpc' = "returned"
    /\ UNCHANGED <<data, field_path>>
    /\ UNCHANGED <<pipeVars, scrVars, extVars, valVars, prjVars, auxVars>>

\* ------------------------------------------------------------ configuration
\* The configuration file as load_and_validate reads it: missing, not JSON,
\* or a JSON object with an update_interval (or none), a number of feeds,
\* an ai_enhancement_enabled flag, and the rest (site_name, scraper_type,
\* content_mapping, the feeds' URLs) valid or not.
ConfigFiles ==
    { [state |-> st, has_interval |-> FALSE, update_interval |-> 0, feeds |-> 0,
       rest_valid |-> FALSE, ai_enhancement_enabled |-> FALSE] :
        st \in {"missing", "malformed"} }
    \cup [state : {"ok"}, has_interval : {TRUE},
          update_interval : {299, 300, 3600, 86400, 86401},
          feeds : {0, 1, 20, 21}, rest_valid : BOOLEAN,
          ai_enhancement_enabled : BOOLEAN]
    \cup [state : {"ok"}, has_interval : {FALSE}, update_interval : {0},
          feeds : {0, 1, 20, 21}, rest_valid : BOOLEAN,
          ai_enhancement_enabled : BOOLEAN]

\* update_interval: int = Field(3600, ge=300, le=86400)
ValidateUpdateInterval(f) ==
    IF ~f.has_interval THEN Made(IntervalDefault)
    ELSE IF f.update_interval >= IntervalMin /\ f.update_interval <= IntervalMax
    THEN Made(f.update_interval)
    ELSE NoValue

\* Mutant of ValidateFeeds: the count has no upper limit.
ValidateFeedsNoLimit(f) == IF f.feeds >= 1 THEN Made(f.feeds) ELSE NoValue

\* feeds: List[HttpUrl] = Field(..., min_length=1), and validate_feeds.
ValidateFeeds(f) ==
    IF f.feeds >= 1 /\ f.feeds <= FeedsLimit THEN Made(f.feeds) ELSE NoValue

\* ConfigValidator.load_and_validate: the SiteConfig, or NoValue when it
\* raises (FileNotFoundError, JSONDecodeError, ValidationError).
LoadAndValidate(f) ==
    IF f.state # "ok" THEN NoValue
    ELSE LET ui == ValidateUpdateInterval(f)
             fd == ValidateFeeds(f)
         IN IF f.rest_valid /\ ui.ok /\ fd.ok
            THEN Made([update_interval |-> ui.val, feeds |-> fd.val,
                       ai_enhancement_enabled |-> f.ai_enhancement_enabled])
            ELSE NoValue

InitConfig ==
    /\ config_file \in ConfigFiles
    /\ no_ai \in BOOLEAN
    /\ config = NoValue

IdleConfig ==
    /\ config_file = [state |-> "missing", has_interval |-> FALSE,
                      update_interval |-> 0, feeds |-> 0, rest_valid |-> FALSE,
                      ai_enhancement_enabled |-> FALSE]
    /\ no_ai = FALSE
    /\ config = NoValue

\* ------------------------------------------------------- prices (floats)
\* Python floats are IEEE doubles: a significand of 53 bits and the power
\* of two its last bit stands for.  The significand is held as three limbs,
\* hi of 17 bits and mid and lo of 18 bits each (hi * 2^36 + mid * 2^18 + lo).
\* The prices of the model are whole amounts, which doubles hold exactly,
\* and so is their difference; the quotient and the product by 100 are
\* rounded to nearest, ties to even.
Limb == 2 ^ LimbBits
HiLimb == 2 ^ HiBits

\* The least e >= 1 with n * 2^e >= o  (0 < n < o).
RECURSIVE NormExp(_, _, _)
NormExp(n, o, e) == IF n * (2 ^ e) >= o THEN e ELSE NormExp(n, o, e + 1)

\* The double of limbs hi, mid, lo and last-bit exponent x, rounded up when
\* up holds: one is added at the last bit (a carry out of the first bit
\* gives 1000...0 one exponent higher).
Rounded(hi, mid, lo, x, up) ==
    LET lo1 == IF up THEN lo + 1 ELSE lo
        mid1 == mid + (lo1 \div Limb)
        hi1 == hi + (mid1 \div Limb)
    IN IF hi1 = HiLimb
       THEN [hi |-> HiLimb \div 2, mid |-> 0, lo |-> 0, x |-> x + 1]
       ELSE [hi |-> hi1, mid |-> mid1 % Limb, lo |-> lo1 % Limb, x |-> x]

\* float(n) / float(o) for 0 < n < o: 53 digits of the binary expansion of
\* the quotient by long division, rounded by the remainder left.
FloatDiv(n, o) ==
    LET e == NormExp(n, o, 1)
        r0 == n * (2 ^ (e - 1))
        hi == (r0 * HiLimb) \div o
        r1 == (r0 * HiLimb) % o
        mid == (r1 * Limb) \div o
        r2 == (r1 * Limb) % o
        lo == (r2 * Limb) \div o
        r3 == (r2 * Limb) % o
        up == 2 * r3 > o \/ (2 * r3 = o /\ lo % 2 = 1)
    IN Rounded(hi, mid, lo, 0 - (e + HiBits + 2 * LimbBits - 1), up)

\* f * 100: the exact product of the significand by 100 (6 or 7 bits
\* longer), rounded to 53 bits.
FloatMul100(f) ==
    LET plo == 100 * f.lo
        pmid == 100 * f.mid + (plo \div Limb)
        top == 100 * f.hi + (pmid \div Limb)
        l == plo % Limb
        m == pmid % Limb
        s == IF top >= 2 ^ (HiBits + 6) THEN 7 ELSE 6
        cut == 2 ^ s
        lo == (l \div cut) + (m % cut) * (Limb \div cut)
        mid == (m \div cut) + (top % cut) * (Limb \div cut)
        hi == top \div cut
        dropped == l % cut
        half == cut \div 2
        up == dropped > half \/ (dropped = half /\ lo % 2 = 1)
    IN Rounded(hi, mid, lo, f.x + s, up)

\* int(f) for a double 0 < f < 2^17: the bits in front of the binary point.
FloatToInt(f) ==
    LET k == HiBits + 2 * LimbBits + f.x
    IN IF k <= 0 THEN 0 ELSE f.hi \div (2 ^ (HiBits - k))

\* int(((original_price - current_price) / original_price) * 100)
CalculatedDiscount(current_price, original_price) ==
    FloatToInt(FloatMul100(FloatDiv(original_price - current_price, original_price)))

\* DealOutput.validate_original_price
ValidateOriginalPrice(v, current_price) ==
    IF v < current_price THEN current_price ELSE v

\* DealOutput.validate_discount_percent
ValidateDiscountPercent(v, current_price, original_price) ==
    IF original_price > 0 /\ current_price > 0 /\ original_price > current_price
    THEN Min(CalculatedDiscount(current_price, original_price), 100)
    ELSE IF v > 0 THEN Min(v, 100)
    ELSE 0

\* DealOutput(price=..., originalPrice=..., discountPercent=..., ...), the
\* other fields valid: the field constraints, then the fields' validators in
\* the order of the fields.
NewDealOutput(in) ==
    IF in.price < 0 \/ in.originalPrice < 0
       \/ in.discountPercent < 0 \/ in.discountPercent > 100
    THEN NoValue
    ELSE LET original == ValidateOriginalPrice(in.originalPrice, in.price)
         IN Made([price |-> in.price, originalPrice |-> original,
                  discountPercent |->
                      ValidateDiscountPercent(in.discountPercent, in.price, original)])

DealInputs ==
    [price : -1..MaxPrice, originalPrice : -1..MaxPrice,
     discountPercent : {-5, 0, 30, 100, 150}]

InitDeal ==
    /\ deal_in \in DealInputs
    /\ deal = NoValue
    /\ dpc = "call"

IdleDeal ==
    /\ deal_in = [price |-> 0, originalPrice |-> 0, discountPercent |-> 0]
    /\ deal = NoValue
    /\ dpc = "idle"

\* DealOutput(**data) runs.
ConstructDeal ==
    /\ dpc = "call"
    /\ deal' = NewDealOutput(deal_in)
    /\ dpc' = "returned"
    /\ UNCHANGED deal_in
    /\ UNCHANGED <<pipeVars, scrVars, extVars, valVars, prjVars, fldVars, cfgVars,
                   rtyVars, docVars, enhVars>>

\* ------------------------------------------------------------------ retries
\* What one request of session.get meets: a connection or read error (a
\* refused connection, a timeout), or a response with a status, with or
\* without a Retry-After header.
AttemptOutcomes ==
    { [kind |-> "error", status |-> 0, retry_after |-> FALSE] }
    \cup [kind : {"http"}, status : {200, 304, 404, 413, 429, 500, 502, 503, 504},
          retry_after : BOOLEAN]

\* status_forcelist=[429, 500, 502, 503, 504]
StatusForcelist == {429, 500, 502, 503, 504}

\* Whether the session's Retry(total=retry_attempts, status_forcelist=...,
\* allowed_methods=[..."GET"...]) retries a GET after outcome o: after a
\* connection or read error, after a status of the list, and (total not 0)
\* after 413, 429 or 503 carrying Retry-After.
IsRetry(o, total) ==
    \/ o.kind = "error"
    \/ o.status \in StatusForcelist
    \/ total # 0 /\ o.retry_after /\ o.status \in {413, 429, 503}

\* _make_request once session.get has a response: None on 304 and, through
\* raise_for_status, on 4xx/5xx.
AfterResponse(o) ==
    IF o.status = 304 \/ o.status >= 400 THEN "none" ELSE "response"

InitRetry ==
    /\ retries = RetryAttempts
    /\ attempt_log = <<>>
    /\ fetch_result = "pending"
    /\ rpc = "request"

IdleRetry ==
    /\ retries = RetryAttempts
    /\ attempt_log = <<>>
    /\ fetch_result = "pending"
    /\ rpc = "idle"

\* One request of session.get: a retried outcome takes one from the total
\* and, the total exhausted, ends in a RequestException, which _make_request
\* turns into None.
Request ==
    /\ rpc = "request"
    /\ \E o \in AttemptOutcomes :
         /\ attempt_log' = Append(attempt_log, o)
         /\ IF IsRetry(o, retries)
            THEN IF retries - 1 < 0
                 THEN /\ fetch_result' = "none"
                      /\ rpc' = "returned"
                      /\ retries' = retries - 1
                 ELSE /\ retries' = retries - 1
                      /\ UNCHANGED <<fetch_result, rpc>>
            ELSE /\ fetch_result' = AfterResponse(o)
                 /\ rpc' = "returned"
                 /\ UNCHANGED retries
    /\ UNCHANGED <<pipeVars, scrVars, extVars, valVars, prjVars, fldVars, cfgVars,
                   dealVars, docVars, enhVars>>

IdleAux == IdleConfig /\ IdleDeal /\ IdleRetry /\ IdleDocument /\ IdleEnhance

\* main: validate_config_file(args.config), then the --no-ai override; an
\* exception goes to main's handler, which returns 1.
LoadConfig ==
    /\ pc = "load"
    /\ LET r == LoadAndValidate(config_file)
       IN IF r.ok
          THEN /\ config' = Made([r.val EXCEPT !.ai_enhancement_enabled =
                                                 @ /\ ~no_ai])
               /\ pc' = "construct"
               /\ UNCHANGED exit_code
          ELSE /\ config' = NoValue
               /\ pc' = "rejected"
               /\ exit_code' = 1
    /\ UNCHANGED <<ai_agents_enabled, raw_content, enhanced_content, idx,
                   validated_content, output_data, stats, file, summary,
                   phases, llm_used, failed_src, enh_log, quality, write_failed>>
    /\ UNCHANGED <<config_file, no_ai>>
    /\ UNCHANGED batch_raised
    /\ UNCHANGED <<scrVars, extVars, valVars, prjVars, fldVars, dealVars, rtyVars,
                   docVars, enhVars>>

\* ContentPipeline(config, settings): the agents are built when AI is
\* enabled; if building them raises, AI is switched off.
ConstructPipeline ==
    /\ pc = "construct"
    /\ \E agents_ok \in BOOLEAN :
         ai_agents_enabled' = (config.val.ai_enhancement_enabled /\ agents_ok)
    /\ pc' = "start"
    /\ UNCHANGED <<raw_content, enhanced_content, idx, validated_content,
                   output_data, stats, file, summary, exit_code, phases,
                   llm_used, failed_src, enh_log, quality, write_failed>>
    /\ UNCHANGED batch_raised
    /\ UNCHANGED <<scrVars, benchVars>>

InitPipeline == \E ai \in BOOLEAN : PipelineAt("start", ai)

IdlePipeline == PipelineAt("idle", TRUE)

IdleBench == IdleExtract /\ IdleValidator /\ IdleProject /\ IdleField /\ IdleAux

Init == InitPipeline /\ IdleScraper /\ IdleBench

Next ==
    \/ RunPipeline
    \/ ScrapeContent
    \/ EnhanceItem
    \/ EnhanceReturn
    \/ ValidateContent
    \/ ConvertContent
    \/ ProjectContent
    \/ WriteOpen
    \/ WriteDump
    \/ WriteClose
    \/ Interrupt

Spec == Init /\ [][Next]_vars

InitScraperSpec == IdlePipeline /\ InitScraper /\ IdleBench

NextScraper ==
    \/ ScrapeNextFeed
    \/ ScrapeAllReturn

SpecScraper == InitScraperSpec /\ [][NextScraper]_vars

InitExtractSpec ==
    /\ IdlePipeline /\ IdleScraper
    /\ InitExtract /\ IdleValidator /\ IdleProject /\ IdleField
    /\ IdleAux

NextExtract ==
    \/ ExtractEntry
    \/ ExtractReturn

SpecExtract == InitExtractSpec /\ [][NextExtract]_vars

InitValidatorSpec ==
    /\ IdlePipeline /\ IdleScraper
    /\ IdleExtract /\ InitValidator /\ IdleProject /\ IdleField
    /\ IdleAux

NextValidator ==
    \/ ValidateSingle
    \/ ValidateItem
    \/ BatchReturn
    \/ RunRaises

SpecValidator == InitValidatorSpec /\ [][NextValidator]_vars

InitProjectSpec ==
    /\ IdlePipeline /\ IdleScraper
    /\ IdleExtract /\ IdleValidator /\ InitProject /\ IdleField
    /\ IdleAux

NextProject ==
    \/ Project
    \/ ClockTick

SpecProject == InitProjectSpec /\ [][NextProject]_vars

InitFieldSpec ==
    /\ IdlePipeline /\ IdleScraper
    /\ IdleExtract /\ IdleValidator /\ IdleProject /\ InitField
    /\ IdleAux

NextField == ExtractField

SpecField == InitFieldSpec /\ [][NextField]_vars

InitMainSpec ==
    /\ PipelineAt("load", FALSE) /\ IdleScraper
    /\ IdleExtract /\ IdleValidator /\ IdleProject /\ IdleField
    /\ InitConfig /\ IdleDeal /\ IdleRetry /\ IdleDocument /\ IdleEnhance

NextMain ==
    \/ LoadConfig
    \/ ConstructPipeline
    \/ RunPipeline

SpecMain == InitMainSpec /\ [][NextMain]_vars

InitDealSpec ==
    /\ IdlePipeline /\ IdleScraper
    /\ IdleExtract /\ IdleValidator /\ IdleProject /\ IdleField
    /\ IdleConfig /\ InitDeal /\ IdleRetry /\ IdleDocument /\ IdleEnhance

NextDeal == ConstructDeal

SpecDeal == InitDealSpec /\ [][NextDeal]_vars

InitRetrySpec ==
    /\ IdlePipeline /\ IdleScraper
    /\ IdleExtract /\ IdleValidator /\ IdleProject /\ IdleField
    /\ IdleConfig /\ IdleDeal /\ InitRetry /\ IdleDocument /\ IdleEnhance

NextRetry == Request

SpecRetry == InitRetrySpec /\ [][NextRetry]_vars

InitDocumentSpec ==
    /\ IdlePipeline /\ IdleScraper
    /\ IdleExtract /\ IdleValidator /\ IdleProject /\ IdleField
    /\ IdleConfig /\ IdleDeal /\ IdleRetry /\ InitDocument /\ IdleEnhance

NextDocument ==
    \/ ScrapeItem
    \/ ScrapeReturn

SpecDocument == InitDocumentSpec /\ [][NextDocument]_vars

InitEnhanceSpec ==
    /\ IdlePipeline /\ IdleScraper
    /\ IdleExtract /\ IdleValidator /\ IdleProject /\ IdleField
    /\ IdleConfig /\ IdleDeal /\ IdleRetry /\ IdleDocument /\ InitEnhance

NextEnhance == EnhanceCall

SpecEnhance == InitEnhanceSpec /\ [][NextEnhance]_vars

\* ================================================================== claims
Entered(p) == \E k \in DOMAIN phases : phases[k] = p
InFile(src) == \E k \in DOMAIN file.records : file.records[k].src = src
PassedValidation(src) ==
    \E k \in DOMAIN validated_content : validated_content[k].src = src
Returned == summary.ok /\ pc = "done"

\* C1: the enhancement phase returns exactly one Enhanced Content per input
\* item, in input order; an item whose enhance call raised is replaced by a
\* degraded record (quality_score 0.6, no AI-generated fields, explanatory
\* note) and the items around it are still there.  (pc = "validate": the
\* phase has returned and enhanced_content is what it returned.)
C1_OnePerItem ==
    pc = "validate" =>
        /\ Len(enhanced_content) = Len(raw_content)
        /\ \A k \in DOMAIN enhanced_content :
             /\ enhanced_content[k].src = k
             /\ k \in failed_src =>
                  /\ enhanced_content[k].quality_score = DegradedScore
                  /\ enhanced_content[k].ai_generated_fields = {}
                  /\ enhanced_content[k].enhancement_notes = "failed"

\* C2: when the scrape phase yields no item the run returns a summary with
\* total_items = 0, successful_items = 0, success_rate = 0.0 and the output
\* path then holds an empty JSON array.
C2_EmptyRunWritesFile ==
    (pc \in {"done", "raised"} /\ raw_content = <<>>) =>
        /\ Returned
        /\ summary.val.total_items = 0
        /\ summary.val.successful_items = 0
        /\ SuccessRate(summary.val) = 0
        /\ file = [state |-> "complete", records |-> <<>>]

C4_PartialFailure ==
    (pc = "done" /\ ai_agents_enabled /\ failed_src # {}) =>
        /\ summary.val.total_items = Len(raw_content)
        /\ summary.val.failed_items >= 1
        /\ SuccessRate(summary.val) < 100
        /\ \A k \in DOMAIN raw_content :
             (k \notin failed_src /\ PassedValidation(k)) =>
                 (file.state = "complete" /\ InFile(k))

\* C5: with AI disabled, a run over n >= 1 scraped items returns
\* successful_items = n and ai_enhanced_count = 0 and writes an array of
\* exactly n elements.  (The run over no item is C2's.)
C5_PassThroughKeepsAll ==
    (pc = "done" /\ ~ai_agents_enabled /\ Len(raw_content) >= 1) =>
        /\ summary.val.successful_items = Len(raw_content)
        /\ summary.val.ai_enhanced_count = 0
        /\ file.state = "complete"
        /\ Len(file.records) = Len(raw_content)

\* A feed's scrape fails on a transport error, an HTTP error status or a
\* document the parser chokes on.
FeedFails(resp) == resp.kind = "error" \/ resp.status >= 400 \/ ~resp.parse_ok

\* The items of the documents of the feeds from position k on that did not
\* fail, in feed order.
RECURSIVE ItemsOfGoodFeeds(_)
ItemsOfGoodFeeds(k) ==
    IF k > Len(feed_log) THEN <<>>
    ELSE (IF FeedFails(feed_log[k].resp) THEN <<>>
          ELSE [j \in 1..feed_log[k].resp.entries |-> <<k, j>>])
         \o ItemsOfGoodFeeds(k + 1)

\* C6: scrape_all_feeds scrapes every configured feed and returns, in feed
\* order, the items of the feeds that did not fail; a failing feed
\* contributes nothing and stops nothing.
C6_FeedsIsolated ==
    spc = "returned" =>
        /\ Len(feed_log) = Len(feeds)
        /\ \A k \in DOMAIN feed_log : feed_log[k].url = feeds[k]
        /\ all_content = ItemsOfGoodFeeds(1)

\* C6 witness: a feed failed and a later feed's items were returned.
C6_Witness ==
    /\ spc = "returned"
    /\ \E a, b \in DOMAIN feed_log :
         /\ a < b
         /\ FeedFails(feed_log[a].resp)
         /\ ~FeedFails(feed_log[b].resp)
         /\ feed_log[b].resp.entries >= 1
         /\ all_content # <<>>

Got304WithEntry(e) ==
    /\ e.resp.kind = "http"
    /\ e.resp.status = 304
    /\ e.cache_before[e.url] # NoEntry

C8_CacheOnlyOn2xx ==
    \A k \in DOMAIN feed_log :
        (feed_log[k].resp.kind = "error" \/ feed_log[k].resp.status >= 400) =>
            /\ feed_log[k].items = <<>>
            /\ ~feed_log[k].parsed
            /\ feed_log[k].cache_after = feed_log[k].cache_before

\* C9: after an interrupt the output path holds the complete array of this
\* run or exactly what it held before the run.
C9_NoPartialFile ==
    pc = "interrupted" =>
        \/ file = PriorFile
        \/ file = [state |-> "complete", records |-> output_data]

PhaseRank(p) ==
    CASE p = "SCRAPE" -> 1
      [] p = "ENHANCE" -> 2
      [] p = "VALIDATE" -> 3
      [] p = "PROJECT" -> 4
      [] p = "WRITE" -> 5
      [] p = "DONE" -> 6

\* The phase a position of run_pipeline belongs to.
PhaseOf(p) ==
    CASE p = "scrape" -> "SCRAPE"
      [] p = "enhance" -> "ENHANCE"
      [] p = "validate" -> "VALIDATE"
      [] p = "project" -> "PROJECT"
      [] p \in {"write", "dump"} -> "WRITE"
      [] p = "done" -> "DONE"

\* C10: the phases of a run are entered in the order SCRAPE, ENHANCE,
\* VALIDATE, PROJECT, WRITE, DONE, each at most once, the running phase being
\* the last one entered (the earlier ones have finished): an LLM call is made
\* only with AI enabled and after the scrape has finished, the file is
\* touched only after all items are projected; with AI disabled ENHANCE and
\* VALIDATE are never entered and no LLM call is made.
C10_PhaseOrder ==
    /\ \A a, b \in DOMAIN phases :
         a < b => PhaseRank(phases[a]) < PhaseRank(phases[b])
    /\ pc \in {"scrape", "enhance", "validate", "project", "write", "dump", "done"}
         => phases[Len(phases)] = PhaseOf(pc)
    /\ llm_used =>
         /\ ai_agents_enabled
         /\ Entered("ENHANCE")
         /\ stats.total_scraped = Len(raw_content)
    /\ Entered("VALIDATE") => idx > Len(raw_content)
    /\ file # PriorFile =>
         /\ Entered("WRITE")
         /\ output_data = GenerateOutput(validated_content)
         /\ stats.total_output = Len(output_data)
    /\ ~ai_agents_enabled =>
         (~llm_used /\ ~Entered("ENHANCE") /\ ~Entered("VALIDATE"))
    /\ ai_agents_enabled /\ Entered("PROJECT") => Entered("VALIDATE")

\* C10 witness: a finished run with AI enabled that went through all six
\* phases and called the LLM.
C10_Witness ==
    /\ pc = "done"
    /\ llm_used
    /\ phases = <<"SCRAPE", "ENHANCE", "VALIDATE", "PROJECT", "WRITE", "DONE">>
    /\ file.state = "complete"
    /\ file.records # <<>>

\* The entry has a title and a URL that extraction can turn into a non-empty
\* title and an absolute URL (a relative one only on the HTML path, which
\* joins it to the page's URL).
HasTitleAndUrl(v, e) ==
    /\ e.title \in {"normal", "punct"}
    /\ \/ e.url = "absolute"
       \/ e.url = "relative" /\ v = "html"

\* C11: every Raw Content an adapter variant returns has a non-empty title
\* and an absolute url; an entry from which extraction cannot produce both
\* is discarded, so the returned items are, in order, entries that had both.
C11_TitleAndUrl ==
    /\ \A k \in DOMAIN content_items :
         /\ content_items[k].title \in {"normal", "punct"}
         /\ content_items[k].url = "absolute"
    /\ \A k \in DOMAIN entry_log :
         entry_log[k].kept => HasTitleAndUrl(adapter, entry_log[k].entry)
    /\ Len(content_items) = Cardinality({k \in DOMAIN entry_log : entry_log[k].kept})

\* C11 witness: the adapter returned an item after it had discarded an entry
\* whose title cleans to nothing.
C11_Witness ==
    /\ epc = "returned"
    /\ content_items # <<>>
    /\ \E a \in DOMAIN entry_log :
         /\ entry_log[a].entry.title = "markup"
         /\ entry_log[a].entry.url = "absolute"
         /\ ~entry_log[a].kept

\* C12: for a Raw Content whose image is null, enhance_content returns an
\* Enhanced Content whose image is the generated image if the LLM produced
\* one and the placeholder path otherwise; the call does not fail where the
\* same call on the same item with an image would have succeeded.
C12_ImageDefaulted ==
    \A k \in DOMAIN enh_log :
        LET c == raw_content[enh_log[k].src]
            o == enh_log[k].outcome
            r == enh_log[k].result
        IN ~c.image =>
             /\ r.ok => r.val.image = o.image
             /\ EnhanceContent(enh_log[k].src, [c EXCEPT !.image = TRUE], o).ok => r.ok

\* The positions from k on of the enhanced items whose Quality Result
\* recommends publishing, in order.
RECURSIVE AcceptedFrom(_)
AcceptedFrom(k) ==
    IF k > Len(enhanced_content) THEN <<>>
    ELSE (IF /\ k <= Len(quality)
             /\ quality[k].recommendation \in {"validated", "enhanced"}
          THEN <<k>> ELSE <<>>)
         \o AcceptedFrom(k + 1)

\* C13: the validation phase returns exactly the enhanced items whose
\* Quality Result recommends publish-as-is or publish-after-enhancement, in
\* their order, each with its quality_score set to the overall score of its
\* own Quality Result and nothing else changed.
C13_FilterExact ==
    (ai_agents_enabled /\ Entered("PROJECT")) =>
        LET acc == AcceptedFrom(1)
        IN /\ Len(validated_content) = Len(acc)
           /\ \A j \in DOMAIN acc :
                /\ validated_content[j] = enhanced_content[acc[j]]
                /\ validated_content[j].quality_score
                     = quality[acc[j]].overall_quality_score

\* C13 witness: of two enhanced items the first was rejected and the second
\* accepted with a validated score other than the enhancer's.
C13_Witness ==
    /\ pc = "done"
    /\ Len(enhanced_content) = 2
    /\ Len(quality) = 2
    /\ quality[1].recommendation = "rejected"
    /\ quality[2].recommendation = "validated"
    /\ Len(validated_content) = 1
    /\ validated_content[1].src = 2
    /\ validated_content[1].quality_score = 9

\* C14: every Quality Result validate_content or batch_validate returns has
\* the recommendation its overall score and the threshold determine
\* (>= 0.8 validated, >= threshold enhanced, below it rejected), whatever
\* the LLM proposed.
C14_RecommendationMapped ==
    vpc = "returned" =>
        \A k \in DOMAIN batch_results :
            batch_results[k].recommendation
              = Recommend(batch_results[k].overall_quality_score, QualityThreshold)

\* C15: batch validation returns one Quality Result per item, in item order;
\* an item whose validation failed gets the conservative default (score 0.5,
\* publish-after-enhancement, insufficient-information) and every other item
\* the result of its own validation.  (When the agent run itself raises,
\* every item gets the default.)
C15_BatchIndependent ==
    (vpc = "returned" /\ val_mode = "batch") =>
        /\ Len(batch_results) = batch_size
        /\ ~run_failed =>
             /\ Len(val_log) = batch_size
             /\ \A k \in DOMAIN batch_results :
                  IF val_log[k].fails
                  THEN /\ batch_results[k].overall_quality_score = ConservativeScore
                       /\ batch_results[k].recommendation = "enhanced"
                       /\ batch_results[k].issues_found = {"insufficient_information"}
                  ELSE /\ batch_results[k].overall_quality_score = val_log[k].score
                       /\ batch_results[k].issues_found = val_log[k].issues
        /\ run_failed =>
             \A k \in DOMAIN batch_results : batch_results[k] = ConservativeResult

\* C15 witness: a batch of two whose first item was validated with its own
\* score and whose second item's validation failed.
C15_Witness ==
    /\ vpc = "returned"
    /\ val_mode = "batch"
    /\ ~run_failed
    /\ Len(batch_results) = 2
    /\ ~val_log[1].fails
    /\ val_log[2].fails
    /\ batch_results[1].overall_quality_score = 9
    /\ batch_results[2] = ConservativeResult

\* C16: convert_to_deal_output returns an Output Record for every Enhanced
\* Content the pipeline hands it: the projection phase of a run yields one
\* record per validated item.
C16_ProjectionTotal ==
    Entered("WRITE") =>
        /\ Len(output_data) = Len(validated_content)
        /\ \A k \in DOMAIN validated_content : DealOutput(validated_content[k]).ok

\* C17: two projections of the same Enhanced Content with the same Site
\* Configuration give records with the same id, title, category,
\* description, affiliateUrl and dateAdded.
C17_ProjectionIdempotent ==
    (Len(projected) = 2 /\ projected[1].ok /\ projected[2].ok) =>
        /\ projected[1].val.id = projected[2].val.id
        /\ projected[1].val.title = projected[2].val.title
        /\ projected[1].val.category = projected[2].val.category
        /\ projected[1].val.description = projected[2].val.description
        /\ projected[1].val.affiliateUrl = projected[2].val.affiliateUrl
        /\ projected[1].val.dateAdded = projected[2].val.dateAdded

\* C18: the affiliateUrl is the content URL unchanged unless a tag is
\* configured and the URL's host contains "amazon"; then it is the URL
\* followed by "?tag=<tag>" without a query string and "&tag=<tag>" with
\* one.  "amazon" in the path or query alone leaves the URL unchanged.
C18_AffiliateOnHost ==
    \A k \in DOMAIN projected :
        projected[k].ok =>
            LET u == prj_content.url
                a == projected[k].val.affiliateUrl
            IN /\ a.url = u
               /\ IF affiliate_tag # "none" /\ u.amazon_host
                  THEN /\ a.tag = affiliate_tag
                       /\ a.appended = (IF u.query THEN "&tag=" ELSE "?tag=")
                  ELSE a.appended = ""

\* C19: featured is true exactly when the content's quality_score is
\* strictly greater than 0.8.
C19_FeaturedAbove ==
    \A k \in DOMAIN projected :
        projected[k].ok =>
            (projected[k].val.featured <=> prj_content.quality_score > 8)

\* C19 witness: a content scored exactly 0.8 was projected and is not
\* featured.
C19_Witness ==
    /\ projected # <<>>
    /\ projected[1].ok
    /\ prj_content.quality_score = 8
    /\ ~projected[1].val.featured

\* What a path part selects in a value: a mapping's entry under that key, a
\* sequence's element at that decimal index; nothing in a scalar, under a
\* missing key or at an index that is out of range or not a number.  (A null
\* entry reads as a missing one.)
Selected(found, part) ==
    IF ~found.ok THEN NoValue
    ELSE LET v == found.val
         IN CASE v.t = "map" /\ part \in DOMAIN v.kv /\ v.kv[part] # NullNode
                   -> Made(v.kv[part])
              [] v.t = "list" /\ part \in {"0", "1", "5"} /\ IntOf(part) < Len(v.items)
                   -> Made(v.items[IntOf(part) + 1])
              [] OTHER -> NoValue

\* The value the first n parts of field_path lead to in data.
RECURSIVE Resolved(_)
Resolved(n) ==
    IF n = 0 THEN Made(data) ELSE Selected(Resolved(n - 1), field_path[n])

\* The coerced terminal value: the trimmed string of a scalar, the string of
\* a mapping's "url" entry, the string of a sequence's first element, the
\* string form of anything else.
Coerced(v) ==
    CASE v.t = "str" -> [text |-> StripStr(v.v)]
      [] v.t = "num" -> [form_of |-> v]
      [] v.t = "map" /\ "url" \in DOMAIN v.kv -> PyStr(v.kv["url"])
      [] v.t = "list" /\ Len(v.items) >= 1 -> PyStr(v.items[1])
      [] OTHER -> [form_of |-> v]

\* C20: _extract_field_value returns null when the path meets a missing key,
\* an out-of-range or non-numeric index into a sequence, or a scalar with
\* parts still to resolve, and otherwise the coerced terminal value; the
\* document {"a": {"b": [{"url": "X"}]}} with path "a.b.0" gives "X".
C20_FieldValue ==
    fpc = "returned" =>
        /\ LET r == Resolved(Len(field_path))
           IN field_value = (IF r.ok THEN Made(Coerced(r.val)) ELSE NoValue)
        /\ (data = UrlDocument /\ field_path = <<"a", "b", "0">>)
             => field_value = Made([text |-> "X"])

\* C20 witness: the call on the document {"a": {"b": [{"url": "X"}]}} with
\* the path "a.b.0" returned "X".
C20_Witness ==
    /\ fpc = "returned"
    /\ data = UrlDocument
    /\ field_path = <<"a", "b", "0">>
    /\ field_value = Made([text |-> "X"])

\* The file holds a configuration outside the bounds: an update_interval
\* below 300 or above 86400, no feed or more than 20.
OutOfBounds(f) ==
    /\ f.state = "ok"
    /\ \/ f.has_interval /\ f.update_interval \notin IntervalMin..IntervalMax
       \/ f.feeds \notin 1..FeedsLimit

\* C21: a Site Configuration that reaches a pipeline phase has
\* update_interval in [300, 86400] and 1 to 20 feeds; a configuration file
\* outside these bounds is rejected before the scrape phase starts and main
\* returns a non-zero exit code.
C21_ConfigBounds ==
    /\ phases # <<>> =>
          /\ config.ok
          /\ config.val.update_interval \in IntervalMin..IntervalMax
          /\ config.val.feeds \in 1..FeedsLimit
    /\ (pc # "load" /\ OutOfBounds(config_file)) =>
          /\ pc = "rejected"
          /\ exit_code # 0
          /\ phases = <<>>
          /\ ~config.ok

\* C21 witness: a file whose only fault is its 21 feeds was rejected.
C21_Witness ==
    /\ pc = "rejected"
    /\ exit_code = 1
    /\ config_file.state = "ok"
    /\ config_file.rest_valid
    /\ config_file.feeds = 21
    /\ config_file.update_interval = 3600

\* The integer part of 100 * (o - p) / o.
ExactDiscount(p, o) == (100 * (o - p)) \div o

\* C22: for an accepted construction with price p >= 0, originalPrice o >= 0
\* and input discount d in [0, 100]: the stored originalPrice is max(o, p);
\* discountPercent is the integer part of 100 * (o - p) / o when p > 0 and
\* o > p, and d otherwise; it is always within [0, 100].  (0, 0, d = 30)
\* keeps 30.
C22_Discount ==
    (dpc = "returned" /\ deal.ok) =>
        LET p == deal_in.price
            o == deal_in.originalPrice
            d == deal_in.discountPercent
        IN /\ p >= 0 /\ o >= 0 /\ d \in 0..100
           /\ deal.val.originalPrice = (IF o >= p THEN o ELSE p)
           /\ deal.val.discountPercent
                = (IF p > 0 /\ o > p THEN ExactDiscount(p, o) ELSE d)
           /\ deal.val.discountPercent \in 0..100
           /\ (p = 0 /\ o = 0 /\ d = 30) => deal.val.discountPercent = 30

\* C23: the counts of an OutputSummary are consistent: a summary whose
\* successful_items + failed_items differs from total_items cannot be
\* constructed, so every summary run_pipeline returns has
\* successful_items + failed_items = total_items.
C23_SummaryConsistent ==
    summary.ok =>
        summary.val.successful_items + summary.val.failed_items
          = summary.val.total_items

\* The fetches before the k-th that were of the same URL and got a 2xx
\* response.
SuccessfulBefore(k) ==
    { j \in 1..(k - 1) :
        /\ feed_log[j].url = feed_log[k].url
        /\ feed_log[j].resp.kind = "http"
        /\ feed_log[j].resp.status \in 200..299 }

\* C24: for every adapter variant the conditional headers a fetch of U sends
\* are exactly the validators of the most recent 2xx response observed for
\* U: If-None-Match iff it carried an ETag, If-Modified-Since iff it carried
\* Last-Modified, none when U has no successful prior fetch; also for the
\* WordPress adapter scraping a feed-format URL twice.
C24_ConditionalHeaders ==
    \A k \in DOMAIN feed_log :
        LET before == SuccessfulBefore(k)
            last == CHOOSE j \in before : \A i \in before : i <= j
        IN feed_log[k].sent =
             (IF before = {} THEN NoEntry
              ELSE [etag |-> feed_log[last].resp.etag,
                    last_modified |-> feed_log[last].resp.last_modified])

\* C25: within one fetch a request is re-issued only after a response with
\* status 429, 500, 502, 503 or 504, any other status ending the fetch at
\* once; the fetch issues at most 1 + the retry budget (3) requests, and
\* with the budget exhausted it returns failure instead of raising.
C25_RetryOnlyOnStatus ==
    /\ \A k \in 1..(Len(attempt_log) - 1) :
         /\ attempt_log[k].kind = "http"
         /\ attempt_log[k].status \in {429, 500, 502, 503, 504}
    /\ Len(attempt_log) <= 1 + RetryAttempts
    /\ rpc = "returned" => fetch_result \in {"response", "none"}
    /\ (rpc = "returned" /\ Len(attempt_log) = 1 + RetryAttempts /\ retries < 0)
         => fetch_result = "none"

\* C26: the list one scrape returns is an order-preserving sub-list of the
\* first 50 item nodes of the document: at most 50 elements, no node beyond
\* the 50th is processed, every returned item is what extraction made of
\* the node it came from, and returned items keep the nodes' order.
C26_OrderedSublist ==
    /\ Len(doc_content) <= ItemCap
    /\ \A k \in DOMAIN item_log :
         /\ item_log[k].node \in DOMAIN item_nodes
         /\ item_log[k].node <= ItemCap
         /\ item_log[k].entry = item_nodes[item_log[k].node]
    /\ \A k \in DOMAIN doc_content :
         /\ doc_content[k].node \in DOMAIN item_nodes
         /\ doc_content[k].node <= ItemCap
         /\ doc_content[k].content =
              ExtractContentWith(custom_extractors, variant,
                                 item_nodes[doc_content[k].node]).val
    /\ \A j, k \in DOMAIN doc_content :
         j < k => doc_content[j].node < doc_content[k].node

\* C26 witness: a scrape of a document longer than 50 nodes returned, with
\* 50 nodes processed, some of them dropped and several returned.
C26_Witness ==
    /\ kpc = "returned"
    /\ Len(item_nodes) > ItemCap
    /\ Len(item_log) = ItemCap
    /\ Len(doc_content) >= 2
    /\ \E k \in DOMAIN item_log : ~item_log[k].kept

\* C27: for every adapter variant, the HTML path included, every Raw
\* Content a scrape returns has no date or a date that parses to a time
\* within the max-age; an item whose parsed date is older is never
\* returned.
C27_RecentOnly ==
    \A k \in DOMAIN item_log :
        item_log[k].kept =>
            /\ item_log[k].entry.date \in {"none", "fresh"}
            /\ item_log[k].entry.date # "old"

\* The titles shorter than 30 characters, and the titles with none of the
\* words "how", "why", "what", "best", "top" in them in any case.
ShortTitles == {"normal", "punct", "short_marker", "marker29"}
UnmarkedTitles == {"normal", "punct", "plain_long"}
Attempted(call) == \E k \in DOMAIN enh_calls : enh_calls[k] = call

\* C28: enhance_content attempts title improvement if and only if the raw
\* title is shorter than 30 characters or has none of the marker words; when
\* it is not attempted, the Enhanced Content's title equals the Raw
\* Content's title and "title" is not in ai_generated_fields.
C28_TitleImprovement ==
    (npc = "returned" /\ enh_failed_at # "enhance_description") =>
        /\ Attempted("improve_title") <=>
              (enh_raw.title \in ShortTitles \/ enh_raw.title \in UnmarkedTitles)
        /\ (~Attempted("improve_title") /\ enh_result.ok) =>
              /\ enh_result.val.title = enh_raw.title
              /\ "title" \notin enh_result.val.ai_generated_fields

\* C30: the quality gate fails open: when batch validation fails, the
\* error counter goes up by one, every enhanced item is passed on to
\* projection and the run goes on to the write phase.
C30_FailsOpen ==
    (batch_raised /\ pc = "project") =>
        /\ stats.errors = Cardinality(failed_src) + 1
        /\ \A k \in DOMAIN enhanced_content :
             PassedValidation(enhanced_content[k].src)
        /\ Len(validated_content) = Len(enhanced_content)
        /\ Entered("PROJECT")

\* The phase counts do not grow along the pipeline.
CountsMonotone ==
    /\ stats.total_output <= stats.total_validated
    /\ stats.total_validated <= stats.total_enhanced
    /\ stats.total_enhanced <= stats.total_scraped

\* A returned summary counts no more successes than items, and its success
\* rate is a percentage.
SummaryInRange ==
    summary.ok =>
        /\ summary.val.successful_items <= summary.val.total_items
        /\ SuccessRate(summary.val) >= 0
        /\ SuccessRate(summary.val) <= 100

\* C29: in every state of a run total_output <= total_validated <=
\* total_enhanced <= total_scraped, so a returned summary has
\* successful_items <= total_items and a success rate within [0, 100]; and
\* no step of a run decreases the error counter.
C29_CountsMonotone ==
    /\ [](CountsMonotone /\ SummaryInRange)
    /\ [][stats'.errors >= stats.errors]_vars

\* C29 witness: a run returned a summary after it had lost an item on the
\* way and counted an error.
C29_Witness ==
    /\ Returned
    /\ stats.errors >= 1
    /\ stats.total_output >= 1
    /\ stats.total_output < stats.total_scraped

====
